---- MODULE Spec2Model ----
(***************************************************************************)
(* A model of the BMA media archive: the album membership interval store   *)
(* (albums/models.py, albums/api.py) and the file moderation state machine *)
(* with its object permissions (files/models.py, files/api.py,             *)
(* files/views.py).                                                        *)
(*                                                                         *)
(* The database is the only shared state.  bma/settings.py sets no         *)
(* ATOMIC_REQUESTS, so every ORM statement commits on its own (Django's    *)
(* default); a handler that raises keeps what it had already written.      *)
(*                                                                         *)
(* Time: timezone.now() is read from the variable now.  Every statement    *)
(* that stores a timestamp advances now by one afterwards, so two stored   *)
(* timestamps are never equal and a later statement always sees a later    *)
(* time (database round trips are far longer than the clock resolution).   *)
(***************************************************************************)
EXTENDS Integers, Sequences, FiniteSets, TLC

\* ------------------------------------------------------------------------
\* Bounds of the model
\* ------------------------------------------------------------------------
MaxTime == 4
MaxRows == 3

\* ------------------------------------------------------------------------
\* Universes
\* ------------------------------------------------------------------------
FileIds == {"f1", "f2"}
AlbumIds == {"a1", "a2"}
Anonymous == "anon"
Users == {"creator", "moderator", "curator", "superuser"}
Principals == Users \cup {Anonymous}
Groups == {"moderators"}
Titles == {"", "t1"}
Descriptions == {"", "d1"}

\* a value that is not a timestamp: the NULL upper bound of an open period
None == -1

VARIABLES
    basefile,       \* files_basefile table: uuid -> row
    userperms,      \* guardian user object permissions <<user, codename, object>>
    groupperms,     \* guardian group object permissions <<group, codename, object>>
    album,          \* albums_album table: uuid -> row
    memberships,    \* albums_albummember table: set of rows
    now,            \* the wall clock read by timezone.now()
    last,           \* the last request handled and its response
    pc,             \* position of each concurrent request worker
    loc             \* local variables of each concurrent request worker

vars == <<basefile, userperms, groupperms, album, memberships, now, last, pc, loc>>

\* ------------------------------------------------------------------------
\* users and guardian
\* ------------------------------------------------------------------------
is_superuser(u) == u = "superuser"

GroupsOf(u) == IF u = "moderator" THEN {"moderators"} ELSE {}

\* user.has_perm(perm, obj) through django's ModelBackend (superuser) and
\* guardian's ObjectPermissionBackend (user and group object permissions)
has_perm(u, perm, obj) ==
    \/ is_superuser(u)
    \/ <<u, perm, obj>> \in userperms
    \/ \E g \in GroupsOf(u) : <<g, perm, obj>> \in groupperms

\* ------------------------------------------------------------------------
\* AlbumMember rows and their period (a tstzrange with bounds [) )
\* ------------------------------------------------------------------------
DateTimeTZRange(lower, upper) == [lower |-> lower, upper |-> upper]

\* postgres isempty(): [t, t) holds nothing
IsEmpty(p) == p.upper # None /\ p.lower >= p.upper

\* postgres  period @> when
Contains(p, when) ==
    /\ ~IsEmpty(p)
    /\ p.lower <= when
    /\ (p.upper = None \/ when < p.upper)

\* postgres  p && q
Overlaps(p, q) ==
    /\ ~IsEmpty(p) /\ ~IsEmpty(q)
    /\ (q.upper = None \/ p.lower < q.upper)
    /\ (p.upper = None \/ q.lower < p.upper)

from_now_to_forever(t) == DateTimeTZRange(t, None)

AlbumMember(id, f, a, period) ==
    [uuid |-> id, basefile |-> f, album |-> a, period |-> period]

\* uuid4 of a new row: rows are never deleted, so the count is fresh
NewUuid(rows) == Cardinality(rows) + 1

\* the table without the exclusion constraint
prevent_membership_overlaps_absent(rows, r) == TRUE

\* a uniqueness check on (basefile, album, lower(period)) in place of the
\* exclusion of overlaps
prevent_membership_overlaps_unique_start(rows, r) ==
    \A o \in rows :
        (o.uuid # r.uuid /\ o.basefile = r.basefile /\ o.album = r.album)
            => o.period.lower # r.period.lower

\* ExclusionConstraint prevent_membership_overlaps: may row r be written
\* (inserted, or updated in place of the row with the same uuid) into rows?
prevent_membership_overlaps(rows, r) ==
    \A o \in rows :
        (o.uuid # r.uuid /\ o.basefile = r.basefile /\ o.album = r.album)
            => ~Overlaps(o.period, r.period)

\* period__endswith=None / period__endswith__isnull=True: upper(period) IS NULL
OpenRows(rows, a, fs) ==
    {r \in rows : r.album = a /\ r.basefile \in fs /\ r.period.upper = None}

\* active_files with the period filter on a join of its own: a file that was
\* ever in the album and is, at the time asked for, in any album
active_files_any_album(rows, a, when) ==
    {r.basefile : r \in {m \in rows : m.album = a /\
        \E o \in rows : o.basefile = m.basefile /\ Contains(o.period, when)}}

\* Album.active_files(when): self.files.filter(memberships__period__contains=when).
\* The related manager's filter on the album is sticky, so the period filter
\* reuses the join on the membership table: one row must match both.
active_files(rows, a, when) ==
    {r.basefile : r \in {m \in rows : m.album = a /\ Contains(m.period, when)}}

\* all orders in which a set can be iterated
Orderings(S) ==
    {s \in [1..Cardinality(S) -> S] : \A i, j \in 1..Cardinality(S) : s[i] = s[j] => i = j}

\* The result of a run of statements: the table, the clock and whether an
\* exception ended the run.
Db(rows, t, ok) == [rows |-> rows, now |-> t, ok |-> ok]

\* get_or_create as update_or_create with the period among the defaults: an
\* existing open membership is restarted at the time of the call
get_or_create_restarts(db, a, f) ==
    LET open == OpenRows(db.rows, a, {f})
        new == AlbumMember(NewUuid(db.rows), f, a, from_now_to_forever(db.now))
    IN  IF open # {}
        THEN Db((db.rows \ open) \cup
                    {AlbumMember(r.uuid, f, a, from_now_to_forever(db.now)) : r \in open},
                db.now + 1, TRUE)
        ELSE IF prevent_membership_overlaps(db.rows, new)
             THEN Db(db.rows \cup {new}, db.now + 1, TRUE)
             ELSE Db(db.rows, db.now + 1, FALSE)

\* get_or_create without period__endswith=None: any membership of the file
\* in the album, closed ones included, counts as the one to get
get_or_create_any_period(db, a, f) ==
    LET found == {r \in db.rows : r.album = a /\ r.basefile = f}
        new == AlbumMember(NewUuid(db.rows), f, a, from_now_to_forever(db.now))
    IN  IF Cardinality(found) = 1 THEN db
        ELSE IF Cardinality(found) > 1 THEN Db(db.rows, db.now, FALSE)
        ELSE IF prevent_membership_overlaps(db.rows, new)
             THEN Db(db.rows \cup {new}, db.now + 1, TRUE)
             ELSE Db(db.rows, db.now + 1, FALSE)

\* AlbumMember.objects.get_or_create(basefile=f, album=self, period__endswith=None)
get_or_create(db, a, f) ==
    LET open == OpenRows(db.rows, a, {f})
        new == AlbumMember(NewUuid(db.rows), f, a, from_now_to_forever(db.now))
    IN  IF Cardinality(open) = 1 THEN db
        ELSE IF Cardinality(open) > 1 THEN Db(db.rows, db.now, FALSE)
        ELSE IF prevent_membership_overlaps(db.rows, new)
             THEN Db(db.rows \cup {new}, db.now + 1, TRUE)
             ELSE Db(db.rows, db.now + 1, FALSE)

\* Album.add_members(file_uuids): files.get(uuid=u) raises DoesNotExist for
\* an unknown uuid; rows created before the exception stay committed.
RECURSIVE add_members(_, _, _, _)
add_members(db, a, file_uuids, known) ==
    IF ~db.ok \/ file_uuids = << >> THEN db
    ELSE IF Head(file_uuids) \notin known THEN Db(db.rows, db.now, FALSE)
    ELSE add_members(get_or_create(db, a, Head(file_uuids)), a, Tail(file_uuids), known)

\* membership.period = DateTimeTZRange(membership.period.lower, timezone.now())
\* membership.save(update_fields=["period"])
ClosePeriod(db, m) ==
    LET closed == AlbumMember(m.uuid, m.basefile, m.album,
                              DateTimeTZRange(m.period.lower, db.now))
    IN  IF prevent_membership_overlaps(db.rows, closed)
        THEN Db({r \in db.rows : r.uuid # m.uuid} \cup {closed}, db.now + 1, TRUE)
        ELSE Db(db.rows, db.now + 1, FALSE)

\* the loop of Album.remove_members over the rows the queryset returned,
\* in the order the database returned them
RECURSIVE CloseAll(_, _)
CloseAll(db, ms) ==
    IF ~db.ok \/ ms = << >> THEN db
    ELSE CloseAll(ClosePeriod(db, Head(ms)), Tail(ms))

\* remove_members without period__endswith__isnull=True: closed memberships
\* of the files are ended again
RemoveTargets_closed_too(rows, a, file_uuids) ==
    {r \in rows : r.album = a /\ r.basefile \in file_uuids}

\* the rows Album.remove_members(file_uuids) iterates over
RemoveTargets(rows, a, file_uuids) == OpenRows(rows, a, file_uuids)

\* ------------------------------------------------------------------------
\* Tables as functions from primary key to row
\* ------------------------------------------------------------------------
Put(table, key, row) ==
    [k \in DOMAIN table \cup {key} |-> IF k = key THEN row ELSE table[k]]

EmptyTable == [k \in {} |-> 0]

\* the last request handled and the status code of its response (a method
\* called directly answers 200 when it returns and 500 when it raises)
Response(op, code) == [op |-> op, code |-> code]

NoRequest == Response("none", 0)

\* the last call of a model method on an album with its file uuids
Call(op, code, a, file_uuids) ==
    [op |-> op, code |-> code, album |-> a, files |-> file_uuids]

Init ==
    /\ basefile = EmptyTable
    /\ userperms = {}
    /\ groupperms = {}
    /\ album = EmptyTable
    /\ memberships = {}
    /\ now = 0
    /\ last = NoRequest
    /\ pc = [w \in {} |-> 0]
    /\ loc = [w \in {} |-> 0]

\* ------------------------------------------------------------------------
\* files: upload
\* ------------------------------------------------------------------------
UploaderPerms ==
    {"view_basefile", "change_basefile", "publish_basefile", "unpublish_basefile",
     "softdelete_basefile", "undelete_basefile"}

ModeratorPerms == {"view_basefile", "approve_basefile", "unapprove_basefile"}

\* add_initial_permissions without the grants to the moderators group
add_initial_permissions_uploader_only(f, uploader) ==
    /\ userperms' = userperms \cup {<<uploader, p, f>> : p \in UploaderPerms}
    /\ groupperms' = groupperms

\* BaseFile.add_initial_permissions
add_initial_permissions(f, uploader) ==
    /\ userperms' = userperms \cup {<<uploader, p, f>> : p \in UploaderPerms}
    /\ groupperms' = groupperms \cup {<<"moderators", p, f>> : p \in ModeratorPerms}

\* a url as the sequence of its path segments; the empty string is << >>
DEFAULT_THUMBNAIL_URL == <<"static", "images", "file-image-solid.png">>

\* the name of the uploaded file, which the title defaults to
original_filename == "t1"

\* POST /files/upload/: supported is the outcome of the libmagic sniffing,
\* valid the outcome of full_clean()
upload(u, f, supported, valid) ==
    /\ f \notin DOMAIN basefile
    /\ IF u = Anonymous
       THEN /\ last' = Response("upload", 403)
            /\ UNCHANGED <<basefile, userperms, groupperms>>
       ELSE IF ~supported \/ ~valid
       THEN /\ last' = Response("upload", 422)
            /\ UNCHANGED <<basefile, userperms, groupperms>>
       ELSE /\ basefile' = Put(basefile, f,
                    [uploader |-> u, approved |-> FALSE, published |-> FALSE,
                     deleted |-> FALSE, title |-> original_filename,
                     description |-> "",
                     thumbnail_url |-> DEFAULT_THUMBNAIL_URL,
                     created |-> Cardinality(DOMAIN basefile) + 1])
            /\ add_initial_permissions(f, u)
            /\ last' = Response("upload", 201)
    /\ UNCHANGED <<album, memberships, now, pc, loc>>

\* ------------------------------------------------------------------------
\* albums: the request payload (AlbumRequestSchema) and the handlers
\* ------------------------------------------------------------------------
\* file lists a request can carry (duplicates allowed)
FileLists ==
    {<< >>} \cup {<<f>> : f \in FileIds} \cup {<<f, g>> : f \in FileIds, g \in FileIds}

Range(s) == {s[i] : i \in DOMAIN s}

\* the schema defaults of AlbumRequestSchema
Default(k) == IF k = "files" THEN << >> ELSE ""

\* an optional field: << >> when the request does not carry it, <<v>> when
\* it carries the value v
Absent == << >>
Present(S) == {<<v>> : v \in S}

\* AlbumRequestSchema: every field is optional
AlbumRequestSchema ==
    [title : {Absent} \cup Present(Titles),
     description : {Absent} \cup Present(Descriptions),
     files : {Absent} \cup Present(FileLists)]

\* the payloads the requests of the model carry: a title or description that
\* is present is not the default (the default is what PUT and create use for
\* an absent field anyway)
Requests ==
    [title : {Absent, <<"t1">>}, description : {Absent, <<"d1">>},
     files : {Absent} \cup Present(FileLists)]

\* k in payload.dict(exclude_unset=True)
IsSet(payload, k) == payload[k] # Absent

\* payload.dict()[k]: an absent field holds the schema default
Dict(payload, k) == IF IsSet(payload, k) THEN payload[k][1] ELSE Default(k)

DbNow == Db(memberships, now, TRUE)

\* the through rows album.files.set(v) inserts, each with the default period
RECURSIVE bulk_create(_, _, _)
bulk_create(db, a, fs) ==
    IF fs = << >> THEN db
    ELSE bulk_create(
            Db(db.rows \cup {AlbumMember(NewUuid(db.rows), Head(fs), a,
                                         from_now_to_forever(db.now))},
               db.now + 1, TRUE),
            a, Tail(fs))

\* what every album handler leaves alone
AlbumFrame == UNCHANGED <<basefile, userperms, groupperms, pc, loc>>

\* POST /albums/create/: album.files.set(v) creates one open membership per
\* distinct file of the payload and album.save() the album, as the tests of
\* the repository exercise it.  The membership rows reference the album and
\* the files by foreign key: with an unknown file uuid, or when full_clean()
\* rejects the empty title and the album is never saved, no row is kept.
album_create(u, a, payload) ==
    /\ a \notin DOMAIN album
    /\ now + Cardinality(Range(Dict(payload, "files"))) <= MaxTime
    /\ Cardinality(memberships) + Cardinality(Range(Dict(payload, "files"))) <= MaxRows
    /\ LET v == Range(Dict(payload, "files"))
           rec(code) == Response("album_create", code)
       IN  IF u = Anonymous \/ ~(v \subseteq DOMAIN basefile) \/ Dict(payload, "title") = ""
           THEN /\ last' = rec(IF u = Anonymous THEN 403
                               ELSE IF ~(v \subseteq DOMAIN basefile) THEN 500 ELSE 422)
                /\ UNCHANGED <<album, memberships, now, userperms>>
           ELSE \E ord \in Orderings(v) :
                LET db == bulk_create(DbNow, a, ord)
                IN  /\ album' = Put(album, a,
                            [owner |-> u, title |-> Dict(payload, "title"),
                             description |-> Dict(payload, "description"),
                             deleted |-> FALSE,
                             created |-> Cardinality(DOMAIN album) + 1])
                    /\ memberships' = db.rows
                    /\ now' = db.now
                    /\ userperms' = userperms \cup
                            {<<u, "change_album", a>>, <<u, "delete_album", a>>}
                    /\ last' = rec(201)
    /\ UNCHANGED <<basefile, groupperms, pc, loc>>

\* Album.add_members(file_uuids) called on a saved album
AddMembers(a, file_uuids) ==
    /\ a \in DOMAIN album
    /\ now + Len(file_uuids) <= MaxTime
    /\ Cardinality(memberships) + Len(file_uuids) <= MaxRows
    /\ LET db == add_members(DbNow, a, file_uuids, DOMAIN basefile)
       IN  /\ memberships' = db.rows
           /\ now' = db.now
           /\ last' = Call("add_members", IF db.ok THEN 200 ELSE 500, a, file_uuids)
    /\ UNCHANGED album
    /\ AlbumFrame

\* Album.remove_members(file_uuids) called on a saved album
RemoveMembers(a, file_uuids) ==
    /\ a \in DOMAIN album
    /\ now + Cardinality(RemoveTargets(memberships, a, Range(file_uuids))) <= MaxTime
    /\ \E ms \in Orderings(RemoveTargets(memberships, a, Range(file_uuids))) :
         LET db == CloseAll(DbNow, ms)
         IN  /\ memberships' = db.rows
             /\ now' = db.now
             /\ last' = Call("remove_members", IF db.ok THEN 200 ELSE 500, a, file_uuids)
    /\ UNCHANGED album
    /\ AlbumFrame

\* album.active_files(when) evaluated by a reader
ActiveFilesQuery(a, when) ==
    /\ a \in DOMAIN album
    /\ last' = [op |-> "active_files", code |-> 200, album |-> a, when |-> when,
                result |-> active_files(memberships, a, when)]
    /\ UNCHANGED <<album, memberships, now>>
    /\ AlbumFrame

\* the album row after setting the payload fields fs on it
SetFields(row, payload, fs, withDefaults) ==
    [k \in DOMAIN row |->
        IF k \in fs /\ (withDefaults \/ IsSet(payload, k))
        THEN Dict(payload, k) ELSE row[k]]

\* album_update whose PUT closes only the active files the payload does not
\* name and adds only the files that are not active
album_update_put_difference(u, a, method, payload, check) ==
    LET rec(code) == Response(method, code)
        known == DOMAIN basefile
        current_uuids == active_files(memberships, a, now)
        new_uuids == Range(Dict(payload, "files"))
        unchanged(code) ==
            /\ last' = rec(code)
            /\ UNCHANGED <<album, memberships, now>>
    IN
    /\ IF a \notin DOMAIN album THEN unchanged(404)
       ELSE IF u = Anonymous \/ ~has_perm(u, "change_album", a) THEN unchanged(403)
       ELSE IF check THEN unchanged(202)
       ELSE IF method = "PATCH"
       THEN IF ~IsSet(payload, "files")
            \* del data["files"] raises KeyError before anything is written
            THEN unchanged(500)
            ELSE \E ms \in Orderings(RemoveTargets(memberships, a, current_uuids \ new_uuids)),
                    add_uuids \in Orderings(new_uuids \ current_uuids) :
                 LET db == add_members(CloseAll(DbNow, ms), a, add_uuids, known)
                 IN  /\ db.now <= MaxTime /\ Cardinality(db.rows) <= MaxRows
                     /\ album' = [album EXCEPT ![a] =
                            SetFields(@, payload, {"title", "description"}, FALSE)]
                     /\ memberships' = db.rows
                     /\ now' = db.now
                     /\ last' = rec(IF db.ok THEN 200 ELSE 500)
       ELSE \E ms \in Orderings(RemoveTargets(memberships, a, current_uuids \ new_uuids)) :
            LET db == add_members(CloseAll(DbNow, ms), a,
                        SelectSeq(Dict(payload, "files"), LAMBDA f : f \notin current_uuids),
                        known)
            IN  /\ db.now <= MaxTime /\ Cardinality(db.rows) <= MaxRows
                /\ album' = IF db.ok
                            THEN [album EXCEPT ![a] =
                                    SetFields(@, payload, {"title", "description"}, TRUE)]
                            ELSE album
                /\ memberships' = db.rows
                /\ now' = db.now
                /\ last' = rec(IF db.ok THEN 200 ELSE 500)
    /\ AlbumFrame

\* PUT and PATCH /albums/{album_uuid}/
album_update(u, a, method, payload, check) ==
    LET rec(code) == Response(method, code)
        known == DOMAIN basefile
        current_uuids == active_files(memberships, a, now)
        new_uuids == Range(Dict(payload, "files"))
        unchanged(code) ==
            /\ last' = rec(code)
            /\ UNCHANGED <<album, memberships, now>>
    IN
    /\ IF a \notin DOMAIN album THEN unchanged(404)
       ELSE IF u = Anonymous \/ ~has_perm(u, "change_album", a) THEN unchanged(403)
       ELSE IF check THEN unchanged(202)
       ELSE IF method = "PATCH"
       THEN IF ~IsSet(payload, "files")
            \* del data["files"] raises KeyError before anything is written
            THEN unchanged(500)
            ELSE \E ms \in Orderings(RemoveTargets(memberships, a, current_uuids \ new_uuids)),
                    add_uuids \in Orderings(new_uuids \ current_uuids) :
                 LET db == add_members(CloseAll(DbNow, ms), a, add_uuids, known)
                 IN  /\ db.now <= MaxTime /\ Cardinality(db.rows) <= MaxRows
                     /\ album' = [album EXCEPT ![a] =
                            SetFields(@, payload, {"title", "description"}, FALSE)]
                     /\ memberships' = db.rows
                     /\ now' = db.now
                     /\ last' = rec(IF db.ok THEN 200 ELSE 500)
       ELSE \E ms \in Orderings(RemoveTargets(memberships, a, current_uuids)) :
            LET db == add_members(CloseAll(DbNow, ms), a, Dict(payload, "files"), known)
            IN  /\ db.now <= MaxTime /\ Cardinality(db.rows) <= MaxRows
                /\ album' = IF db.ok
                            THEN [album EXCEPT ![a] =
                                    SetFields(@, payload, {"title", "description"}, TRUE)]
                            ELSE album
                /\ memberships' = db.rows
                /\ now' = db.now
                /\ last' = rec(IF db.ok THEN 200 ELSE 500)
    /\ AlbumFrame

\* ------------------------------------------------------------------------
\* The album store, one request at a time
\* ------------------------------------------------------------------------
UploadStep == \E f \in FileIds : upload("creator", f, TRUE, TRUE)

\* a request without any field
EmptyRequest == [title |-> Absent, description |-> Absent, files |-> Absent]

TitleOnly == [title |-> <<"t1">>, description |-> Absent, files |-> Absent]

\* a create with a title, and one without (422)
AlbumCreateStep ==
    \E a \in {"a1"} :
        \/ \E p \in {q \in Requests : IsSet(q, "title")} : album_create("curator", a, p)
        \/ album_create("curator", a, EmptyRequest)

AddMembersStep == \E a \in {"a1"}, fs \in FileLists : AddMembers(a, fs)

RemoveMembersStep == \E a \in {"a1"}, fs \in FileLists : RemoveMembers(a, fs)

\* updates by the owner with every payload, and one update each in check
\* mode and by a user without the change permission (the handler answers
\* those before it reads the payload)
AlbumUpdateStep ==
    \E a \in {"a1"}, m \in {"PUT", "PATCH"} :
        \/ \E p \in Requests : album_update("curator", a, m, p, FALSE)
        \/ album_update("curator", a, m, EmptyRequest, TRUE)
        \/ album_update("creator", a, m, EmptyRequest, FALSE)

NextAlbum ==
    \/ UploadStep
    \/ AlbumCreateStep
    \/ AddMembersStep
    \/ RemoveMembersStep
    \/ AlbumUpdateStep

SpecAlbum == Init /\ [][NextAlbum]_vars

\* ------------------------------------------------------------------------
\* Concurrent requests: Album.add_members statement by statement.  Each
\* worker is one request; the statements of different workers interleave,
\* each statement committing on its own.
\* ------------------------------------------------------------------------
Workers == {"w1", "w2"}

Local(a, file_uuids, todo, lower, code) ==
    [album |-> a, files |-> file_uuids, todo |-> todo, lower |-> lower, code |-> code]

\* the worker steps leave everything but the membership table, the clock and
\* their own position alone
WorkerFrame == UNCHANGED <<basefile, userperms, groupperms, album, last>>

\* a request that calls album.add_members(file_uuids) arrives
WorkerStart(w, a, file_uuids) ==
    /\ w \notin DOMAIN pc
    /\ a \in DOMAIN album
    /\ pc' = Put(pc, w, "get")
    /\ loc' = Put(loc, w, Local(a, file_uuids, file_uuids, None, 0))
    /\ UNCHANGED <<memberships, now>>
    /\ WorkerFrame

\* the next uuid of the loop is done: on to the following one, or return
NextUuid(w) ==
    IF Tail(loc[w].todo) = << >>
    THEN /\ pc' = [pc EXCEPT ![w] = "done"]
         /\ loc' = [loc EXCEPT ![w].todo = << >>, ![w].code = 200]
    ELSE /\ pc' = [pc EXCEPT ![w] = "get"]
         /\ loc' = [loc EXCEPT ![w].todo = Tail(@)]

Raise(w) ==
    /\ pc' = [pc EXCEPT ![w] = "done"]
    /\ loc' = [loc EXCEPT ![w].code = 500]

\* f = files.get(uuid=u) and the self.get(**kwargs) of get_or_create
WorkerGet(w) ==
    /\ w \in DOMAIN pc /\ pc[w] = "get"
    /\ LET f == Head(loc[w].todo)
           open == OpenRows(memberships, loc[w].album, {f})
       IN  IF loc[w].todo = << >>
           THEN /\ pc' = [pc EXCEPT ![w] = "done"]
                /\ loc' = [loc EXCEPT ![w].code = 200]
           ELSE IF f \notin DOMAIN basefile \/ Cardinality(open) > 1 THEN Raise(w)
           ELSE IF Cardinality(open) = 1 THEN NextUuid(w)
           ELSE /\ pc' = [pc EXCEPT ![w] = "new"]
                /\ UNCHANGED loc
    /\ UNCHANGED <<memberships, now>>
    /\ WorkerFrame

\* self.model(**params): the period default from_now_to_forever() reads the clock
WorkerNew(w) ==
    /\ w \in DOMAIN pc /\ pc[w] = "new"
    /\ now < MaxTime
    /\ loc' = [loc EXCEPT ![w].lower = now]
    /\ now' = now + 1
    /\ pc' = [pc EXCEPT ![w] = "insert"]
    /\ UNCHANGED memberships
    /\ WorkerFrame

\* obj.save(force_insert=True): the INSERT, checked by the exclusion
\* constraint against the rows committed by then
WorkerInsert(w) ==
    /\ w \in DOMAIN pc /\ pc[w] = "insert"
    /\ Cardinality(memberships) <= MaxRows
    /\ LET new == AlbumMember(NewUuid(memberships), Head(loc[w].todo), loc[w].album,
                              from_now_to_forever(loc[w].lower))
       IN  IF prevent_membership_overlaps(memberships, new)
           THEN /\ memberships' = memberships \cup {new}
                /\ NextUuid(w)
           ELSE /\ pc' = [pc EXCEPT ![w] = "retry"]
                /\ UNCHANGED <<memberships, loc>>
    /\ UNCHANGED now
    /\ WorkerFrame

\* except IntegrityError: self.get(**kwargs) once more, or raise
WorkerRetry(w) ==
    /\ w \in DOMAIN pc /\ pc[w] = "retry"
    /\ LET open == OpenRows(memberships, loc[w].album, {Head(loc[w].todo)})
       IN  IF Cardinality(open) = 1 THEN NextUuid(w) ELSE Raise(w)
    /\ UNCHANGED <<memberships, now>>
    /\ WorkerFrame

\* the lists the concurrent requests carry
WorkerLists == {<<f>> : f \in FileIds} \cup {<<"f1", "f2">>}

WorkerStep ==
    \E w \in Workers :
        \/ \E a \in {"a1"}, fs \in WorkerLists : WorkerStart(w, a, fs)
        \/ WorkerGet(w)
        \/ WorkerNew(w)
        \/ WorkerInsert(w)
        \/ WorkerRetry(w)

NextRace ==
    \/ UploadStep
    \/ \E a \in {"a1"} : album_create("curator", a, TitleOnly)
    \/ \E a \in {"a1"}, f \in FileIds : RemoveMembers(a, <<f>>)
    \/ WorkerStep

SpecRace == Init /\ [][NextRace]_vars

\* ------------------------------------------------------------------------
\* The album list view and its three membership counts
\* ------------------------------------------------------------------------
\* period__endswith__lt: upper(period) < when; no row with a NULL upper bound
endswith__lt(p, when) == p.upper # None /\ p.upper < when

\* period__startswith__gt: lower(period) > when
startswith__gt(p, when) == p.lower > when

\* Count("memberships", filter=Q(...)) of one album: the rows of the album
\* among those the filter takes
Count(rows, a, Q) == Cardinality({m \in rows : m.album = a /\ m \in Q})

\* AlbumListView.get_queryset: every album annotated with its counts.  The
\* clock is read when the request runs: at the instant of the last stored
\* timestamp or later.
AlbumListView(when) ==
    /\ when \in {t \in {now - 1, now} : t >= 0}
    /\ LET contains == {m \in memberships : Contains(m.period, when)}
           lt == {m \in memberships : endswith__lt(m.period, when)}
           gt == {m \in memberships : startswith__gt(m.period, when)}
       IN  last' = [op |-> "AlbumListView", code |-> 200, when |-> when,
                    albums |-> [a \in DOMAIN album |->
                        [active_memberships   |-> Count(memberships, a, contains),
                         historic_memberships |-> Count(memberships, a, lt),
                         future_memberships   |-> Count(memberships, a, gt)]]]
    /\ UNCHANGED <<basefile, userperms, groupperms, album, memberships, now, pc, loc>>

NextAlbumList ==
    \/ UploadStep
    \/ \E a \in AlbumIds : album_create("curator", a, TitleOnly)
    \/ \E a \in AlbumIds, f \in FileIds : AddMembers(a, <<f>>)
    \/ \E a \in AlbumIds, f \in FileIds : RemoveMembers(a, <<f>>)
    \/ \E when \in 0..MaxTime : AlbumListView(when)

SpecAlbumList == Init /\ [][NextAlbumList]_vars

\* ------------------------------------------------------------------------
\* Concurrent album updates: two PATCH requests of the album's owner that
\* carry only a list of files, statement by statement.  album_update opens
\* no transaction, so each statement commits on its own.
\* ------------------------------------------------------------------------
\* get_object_or_404 and has_perm("change_album") passed: the request goes on
UpdateStart(w, a, file_uuids) ==
    /\ w \notin DOMAIN pc
    /\ a \in DOMAIN album
    /\ has_perm("curator", "change_album", a)
    /\ pc' = Put(pc, w, "read")
    /\ loc' = Put(loc, w, [album |-> a, files |-> file_uuids, todo |-> << >>,
                           lower |-> None, code |-> 0, remove |-> {}])
    /\ UNCHANGED <<memberships, now>>
    /\ WorkerFrame

\* current_uuids = set(album.active_files()...); remove_uuids and add_uuids
\* are computed from it
UpdateRead(w) ==
    /\ w \in DOMAIN pc /\ pc[w] = "read"
    /\ LET current_uuids == active_files(memberships, loc[w].album, now)
           new_uuids == Range(loc[w].files)
       IN  \E add_uuids \in Orderings(new_uuids \ current_uuids) :
            loc' = [loc EXCEPT ![w].remove = current_uuids \ new_uuids,
                               ![w].todo = add_uuids]
    /\ pc' = [pc EXCEPT ![w] = "remove"]
    /\ UNCHANGED <<memberships, now>>
    /\ WorkerFrame

\* album.remove_members(remove_uuids); album.add_members follows with the
\* statements of the add_members worker
UpdateRemove(w) ==
    /\ w \in DOMAIN pc /\ pc[w] = "remove"
    /\ \E ms \in Orderings(RemoveTargets(memberships, loc[w].album, loc[w].remove)) :
         LET db == CloseAll(DbNow, ms)
         IN  /\ db.now <= MaxTime
             /\ memberships' = db.rows
             /\ now' = db.now
             /\ IF db.ok
                THEN /\ pc' = [pc EXCEPT ![w] = "get"]
                     /\ UNCHANGED loc
                ELSE Raise(w)
    /\ WorkerFrame

NextUpdate ==
    \/ UploadStep
    \/ album_create("curator", "a1", TitleOnly)
    \/ \E w \in Workers :
        \/ \E fs \in WorkerLists : UpdateStart(w, "a1", fs)
        \/ UpdateRead(w)
        \/ UpdateRemove(w)
        \/ WorkerGet(w)
        \/ WorkerNew(w)
        \/ WorkerInsert(w)
        \/ WorkerRetry(w)

SpecUpdate == Init /\ [][NextUpdate]_vars

\* ------------------------------------------------------------------------
\* files: moderation actions, soft delete and media download
\* (the updated column is not part of the model)
\* ------------------------------------------------------------------------
\* The status column read by files/api.py is not defined by files/models.py,
\* which keeps the three booleans; the status of a row is derived from them
\* as the design describes the correspondence.
Status(row) ==
    IF row.deleted THEN "PENDING_DELETION"
    ELSE IF ~row.approved THEN "PENDING_MODERATION"
    ELSE IF row.published THEN "PUBLISHED"
    ELSE "UNPUBLISHED"

\* BaseFileQuerySet.approve/unapprove/publish/unpublish: the field and the
\* value each hands to change_bool
BaseFileQuerySet ==
    [approve   |-> [field |-> "approved",  value |-> TRUE],
     unapprove |-> [field |-> "approved",  value |-> FALSE],
     publish   |-> [field |-> "published", value |-> TRUE],
     unpublish |-> [field |-> "published", value |-> FALSE],
     delete    |-> [field |-> "deleted",   value |-> TRUE],
     undelete  |-> [field |-> "deleted",   value |-> FALSE]]

\* an UPDATE without the WHERE of the queryset: every row of the table
change_bool_all_rows(table, queryset, field, value) ==
    [f \in DOMAIN table |-> [table[f] EXCEPT ![field] = value]]

\* BaseFileQuerySet.change_bool: one UPDATE over the rows of the queryset
change_bool(table, queryset, field, value) ==
    [f \in DOMAIN table |->
        IF f \in queryset THEN [table[f] EXCEPT ![field] = value] ELSE table[f]]

\* the queryset handed back as it came, whatever the user may do
get_objects_for_user_unfiltered(u, perm, klass) == klass

\* guardian's get_objects_for_user over a queryset of files
get_objects_for_user(u, perm, klass) == {f \in klass : has_perm(u, perm, f)}

FileRequest(op, code, u, file_uuids) ==
    [op |-> op, code |-> code, user |-> u, files |-> file_uuids]

\* api_file_action with the status filter left out
api_file_action_any_status(u, file_uuids, permission, old_status, action, check) ==
    LET db_files == get_objects_for_user(u, permission,
                        {f \in DOMAIN basefile : f \in Range(file_uuids)})
    IN  /\ IF Len(file_uuids) # Cardinality(db_files)
           THEN /\ last' = FileRequest(action, 403, u, file_uuids)
                /\ UNCHANGED basefile
           ELSE IF check
           THEN /\ last' = FileRequest(action, 202, u, file_uuids)
                /\ UNCHANGED basefile
           ELSE /\ basefile' = change_bool(basefile, db_files,
                                    BaseFileQuerySet[action].field,
                                    BaseFileQuerySet[action].value)
                /\ last' = FileRequest(action, 200, u, file_uuids)
        /\ UNCHANGED <<userperms, groupperms, album, memberships, now, pc, loc>>

\* api_file_action: the files named, in old_status when one is given, that
\* the user holds the permission for; all of the list or nothing
api_file_action(u, file_uuids, permission, old_status, action, check) ==
    LET file_filter == {f \in DOMAIN basefile :
                            /\ f \in Range(file_uuids)
                            /\ (old_status # "" => Status(basefile[f]) = old_status)}
        db_files == get_objects_for_user(u, permission, file_filter)
    IN  /\ IF Len(file_uuids) # Cardinality(db_files)
           THEN /\ last' = FileRequest(action, 403, u, file_uuids)
                /\ UNCHANGED basefile
           ELSE IF check
           THEN /\ last' = FileRequest(action, 202, u, file_uuids)
                /\ UNCHANGED basefile
           ELSE /\ basefile' = change_bool(basefile, db_files,
                                    BaseFileQuerySet[action].field,
                                    BaseFileQuerySet[action].value)
                /\ last' = FileRequest(action, 200, u, file_uuids)
        /\ UNCHANGED <<userperms, groupperms, album, memberships, now, pc, loc>>

approve(u, uuids, check) ==
    api_file_action(u, uuids, "approve_basefile", "PENDING_MODERATION", "approve", check)

unapprove(u, uuids, check) ==
    api_file_action(u, uuids, "unapprove_basefile", "", "unapprove", check)

publish(u, uuids, check) ==
    api_file_action(u, uuids, "publish_basefile", "UNPUBLISHED", "publish", check)

unpublish(u, uuids, check) ==
    api_file_action(u, uuids, "unpublish_basefile", "PUBLISHED", "unpublish", check)

\* BaseFile.update_field on one row
update_field(f, field, value) ==
    basefile' = [basefile EXCEPT ![f][field] = value]

softdelete(f) == update_field(f, "deleted", TRUE)

\* FileDeleteView: 404 without the row, 403 without delete_basefile
FileDeleteView(u, f) ==
    /\ IF f \notin DOMAIN basefile
       THEN /\ last' = FileRequest("softdelete", 404, u, <<f>>)
            /\ UNCHANGED basefile
       ELSE IF ~has_perm(u, "delete_basefile", f)
       THEN /\ last' = FileRequest("softdelete", 403, u, <<f>>)
            /\ UNCHANGED basefile
       ELSE /\ softdelete(f)
            /\ last' = FileRequest("softdelete", 302, u, <<f>>)
    /\ UNCHANGED <<userperms, groupperms, album, memberships, now, pc, loc>>

\* BaseFile.permitted without the test of deleted
permitted_ignores_deleted(f, u) ==
    \/ has_perm(u, "view_basefile", f)
    \/ (basefile[f].approved /\ basefile[f].published)

\* BaseFile.permitted
permitted(f, u) ==
    \/ has_perm(u, "view_basefile", f)
    \/ (basefile[f].approved /\ basefile[f].published /\ ~basefile[f].deleted)

\* paths of a media request: without a uuid, or with the uuid of a file
MediaPaths == {<< >>} \cup {<<f>> : f \in FileIds}

\* bma_media_view; exists is the outcome of Path(dbfile.original.path).exists()
bma_media_view(u, path, exists) ==
    /\ last' = FileRequest("media",
                    IF path = << >> THEN 404
                    ELSE IF path[1] \notin DOMAIN basefile THEN 404
                    ELSE IF ~permitted(path[1], u) THEN 403
                    ELSE IF ~exists THEN 404
                    ELSE 200,
                    u, path)
    /\ UNCHANGED <<basefile, userperms, groupperms, album, memberships, now, pc, loc>>

\* validate_thumbnail_url: the url starts with /static/images/ or /media/
validate_thumbnail_url(value) ==
    \/ (Len(value) >= 3 /\ value[1] = "static" /\ value[2] = "images")
    \/ (Len(value) >= 2 /\ value[1] = "media")

\* full_clean() of a file row, for the fields a metadata update can set:
\* title is blank=False, thumbnail_url has validate_thumbnail_url
full_clean(row) == row.title # "" /\ validate_thumbnail_url(row.thumbnail_url)

\* the metadata a file update request can carry; an absent field is << >>
FileUpdateRequestSchema ==
    [title : {Absent, <<"t1">>},
     thumbnail_url : {Absent, <<(<<"media", "a.png">>)>>, <<(<<"wrong", "value.tiff">>)>>}]

\* the schema's default of a field
FileDefault(k) == IF k = "title" THEN "" ELSE << >>

\* metadata.dict(exclude_unset=True) for PATCH, metadata.dict() for PUT,
\* applied to the row by QuerySet.update
UpdateRow(row, metadata, method) ==
    [k \in DOMAIN row |->
        IF k \in DOMAIN metadata
        THEN IF metadata[k] # Absent THEN metadata[k][1]
             ELSE IF method = "PUT" THEN FileDefault(k) ELSE row[k]
        ELSE row[k]]

\* file_update without the transaction around update and full_clean
file_update_no_rollback(u, f, method, metadata, check) ==
    /\ IF u = Anonymous
       THEN /\ last' = FileRequest("file_update", 403, u, <<f>>)
            /\ UNCHANGED basefile
       ELSE IF f \notin DOMAIN basefile
       THEN /\ last' = FileRequest("file_update", 404, u, <<f>>)
            /\ UNCHANGED basefile
       ELSE IF ~has_perm(u, "change_basefile", f)
       THEN /\ last' = FileRequest("file_update", 403, u, <<f>>)
            /\ UNCHANGED basefile
       ELSE IF check
       THEN /\ last' = FileRequest("file_update", 202, u, <<f>>)
            /\ UNCHANGED basefile
       ELSE /\ basefile' = [basefile EXCEPT ![f] = UpdateRow(@, metadata, method)]
            /\ last' = FileRequest("file_update",
                            IF full_clean(UpdateRow(basefile[f], metadata, method))
                            THEN 200 ELSE 422,
                            u, <<f>>)
    /\ UNCHANGED <<userperms, groupperms, album, memberships, now, pc, loc>>

\* PUT and PATCH /files/{file_uuid}/: update and full_clean in one
\* transaction.atomic(); a ValidationError rolls the update back
file_update(u, f, method, metadata, check) ==
    /\ IF u = Anonymous
       THEN /\ last' = FileRequest("file_update", 403, u, <<f>>)
            /\ UNCHANGED basefile
       ELSE IF f \notin DOMAIN basefile
       THEN /\ last' = FileRequest("file_update", 404, u, <<f>>)
            /\ UNCHANGED basefile
       ELSE IF ~has_perm(u, "change_basefile", f)
       THEN /\ last' = FileRequest("file_update", 403, u, <<f>>)
            /\ UNCHANGED basefile
       ELSE IF check
       THEN /\ last' = FileRequest("file_update", 202, u, <<f>>)
            /\ UNCHANGED basefile
       ELSE IF full_clean(UpdateRow(basefile[f], metadata, method))
       THEN /\ basefile' = [basefile EXCEPT ![f] = UpdateRow(@, metadata, method)]
            /\ last' = FileRequest("file_update", 200, u, <<f>>)
       ELSE /\ last' = FileRequest("file_update", 422, u, <<f>>)
            /\ UNCHANGED basefile
    /\ UNCHANGED <<userperms, groupperms, album, memberships, now, pc, loc>>

\* BaseFile.update_status is not defined by files/models.py; the design has
\* PENDING_DELETION set the deleted flag and keep the row
update_status(f, new_status) ==
    basefile' = [basefile EXCEPT ![f].deleted = (new_status = "PENDING_DELETION")]

\* file_delete with the check flag not read
file_delete_ignores_check(u, f, check) ==
    /\ IF u = Anonymous
       THEN /\ last' = FileRequest("file_delete", 403, u, <<f>>)
            /\ UNCHANGED basefile
       ELSE IF f \notin DOMAIN basefile
       THEN /\ last' = FileRequest("file_delete", 404, u, <<f>>)
            /\ UNCHANGED basefile
       ELSE IF ~has_perm(u, "delete_basefile", f)
       THEN /\ last' = FileRequest("file_delete", 403, u, <<f>>)
            /\ UNCHANGED basefile
       ELSE /\ update_status(f, "PENDING_DELETION")
            /\ last' = FileRequest("file_delete", IF check THEN 202 ELSE 204, u, <<f>>)
    /\ UNCHANGED <<userperms, groupperms, album, memberships, now, pc, loc>>

\* file_delete with the permission asked before the row is fetched
file_delete_permission_first(u, f, check) ==
    /\ IF u = Anonymous \/ f \notin DOMAIN basefile \/ ~has_perm(u, "delete_basefile", f)
       THEN /\ last' = FileRequest("file_delete", 403, u, <<f>>)
            /\ UNCHANGED basefile
       ELSE IF check
       THEN /\ last' = FileRequest("file_delete", 202, u, <<f>>)
            /\ UNCHANGED basefile
       ELSE /\ update_status(f, "PENDING_DELETION")
            /\ last' = FileRequest("file_delete", 204, u, <<f>>)
    /\ UNCHANGED <<userperms, groupperms, album, memberships, now, pc, loc>>

\* DELETE /files/{file_uuid}/
file_delete(u, f, check) ==
    /\ IF u = Anonymous
       THEN /\ last' = FileRequest("file_delete", 403, u, <<f>>)
            /\ UNCHANGED basefile
       ELSE IF f \notin DOMAIN basefile
       THEN /\ last' = FileRequest("file_delete", 404, u, <<f>>)
            /\ UNCHANGED basefile
       ELSE IF ~has_perm(u, "delete_basefile", f)
       THEN /\ last' = FileRequest("file_delete", 403, u, <<f>>)
            /\ UNCHANGED basefile
       ELSE IF check
       THEN /\ last' = FileRequest("file_delete", 202, u, <<f>>)
            /\ UNCHANGED basefile
       ELSE /\ update_status(f, "PENDING_DELETION")
            /\ last' = FileRequest("file_delete", 204, u, <<f>>)
    /\ UNCHANGED <<userperms, groupperms, album, memberships, now, pc, loc>>

AlbumRequest(op, code, u, a) == [op |-> op, code |-> code, user |-> u, album |-> a]

\* DELETE /albums/{album_uuid}/
album_delete(u, a, check) ==
    /\ IF u = Anonymous
       THEN /\ last' = AlbumRequest("album_delete", 403, u, a)
            /\ UNCHANGED album
       ELSE IF a \notin DOMAIN album
       THEN /\ last' = AlbumRequest("album_delete", 404, u, a)
            /\ UNCHANGED album
       ELSE IF ~has_perm(u, "delete_album", a)
       THEN /\ last' = AlbumRequest("album_delete", 403, u, a)
            /\ UNCHANGED album
       ELSE IF check
       THEN /\ last' = AlbumRequest("album_delete", 202, u, a)
            /\ UNCHANGED album
       ELSE /\ album' = [album EXCEPT ![a].deleted = TRUE]
            /\ last' = AlbumRequest("album_delete", 204, u, a)
    /\ UNCHANGED <<basefile, userperms, groupperms, memberships, now, pc, loc>>

\* a listing: how many times each row of the table is in the result
ListResponse(op, u, filters, listing, rows) ==
    [op |-> op, code |-> 200, user |-> u, filters |-> filters, listing |-> listing,
     rows |-> rows]

\* the query parameters of a listing, all absent: the albums to filter by,
\* the text to search (a sequence of characters), the sorting (a key and its
\* _asc or _desc suffix), offset and limit
NoFilters == [albums |-> << >>, search |-> << >>, sorting |-> << >>,
              offset |-> 0, limit |-> 0]

\* text__icontains=search on texts of one case: search occurs in text
icontains(text, search) ==
    \E i \in 1..(Len(text) - Len(search) + 1) :
        SubSeq(text, i, i + Len(search) - 1) = search

\* the order of two texts in the database collation, character by character
TextLess(s, t) ==
    \/ \E k \in 1..Len(s) :
            /\ k <= Len(t)
            /\ SubSeq(s, 1, k - 1) = SubSeq(t, 1, k - 1)
            /\ s[k] < t[k]
    \/ Len(s) < Len(t) /\ s = SubSeq(t, 1, Len(s))

\* the order of two rows by a column
ColumnLess(column, r1, r2) ==
    IF column = "created" THEN r1.created < r2.created
    ELSE TextLess(r1[column], r2[column])

\* queryset.order_by(column) or order_by("-" + column): the orders in which
\* the database may return the rows (rows with equal keys in any order)
order_by(table, queryset, column, descending) ==
    {s \in Orderings({k \in DOMAIN queryset : queryset[k] > 0}) :
        \A i, j \in DOMAIN s :
            i < j => IF descending
                     THEN ~ColumnLess(column, table[s[i]], table[s[j]])
                     ELSE ~ColumnLess(column, table[s[j]], table[s[i]])}

\* the sorting requested, or the ordering of the model's Meta ("created",)
Sorted(table, queryset, sorting) ==
    IF sorting # << >>
    THEN order_by(table, queryset, sorting[1], sorting[2] # "_asc")
    ELSE order_by(table, queryset, "created", FALSE)

\* queryset[offset:] when offset is set, then [:limit] when limit is set
Sliced(ordered, offset, limit) ==
    LET from == IF offset # 0 THEN SubSeq(ordered, offset + 1, Len(ordered)) ELSE ordered
    IN  IF limit # 0 THEN SubSeq(from, 1, IF limit < Len(from) THEN limit ELSE Len(from))
        ELSE from

\* title__icontains | description__icontains
Searched(table, queryset, search) ==
    [k \in DOMAIN queryset |->
        IF queryset[k] > 0 /\ (\/ icontains(table[k].title, search)
                               \/ icontains(table[k].description, search))
        THEN 1 ELSE 0]

\* get_permitted as the two querysets one after the other, without distinct
get_permitted_concatenated(u) ==
    [f \in DOMAIN basefile |->
        (IF basefile[f].approved /\ basefile[f].published /\ ~basefile[f].deleted
         THEN 1 ELSE 0)
        + (IF f \in get_objects_for_user(u, "view_basefile", DOMAIN basefile)
           THEN 1 ELSE 0)]

\* BaseFileQuerySet.get_permitted: approved_files | perm_files, distinct
get_permitted(u) ==
    [f \in DOMAIN basefile |->
        IF \/ (basefile[f].approved /\ basefile[f].published /\ ~basefile[f].deleted)
           \/ f \in get_objects_for_user(u, "view_basefile", DOMAIN basefile)
        THEN 1 ELSE 0]

\* the queryset file_list starts from, before any filter:
\* filter(status="PUBLISHED") | get_objects_for_user(user, view_basefile), distinct
file_list_queryset(u) ==
    [f \in DOMAIN basefile |->
        IF \/ Status(basefile[f]) = "PUBLISHED"
           \/ f \in get_objects_for_user(u, "view_basefile", DOMAIN basefile)
        THEN 1 ELSE 0]

\* files.filter(albums__in=filters.albums) on the distinct queryset: the
\* files joined to a membership row of one of the albums
albums__in(files, albums) ==
    [f \in DOMAIN files |->
        IF files[f] > 0 /\ \E r \in memberships :
                r.basefile = f /\ r.album \in Range(albums)
        THEN 1 ELSE 0]

\* file_list with offset and limit applied before the sorting
file_list_slice_first(u, filters) ==
    /\ LET files == file_list_queryset(u)
           in_albums == IF filters.albums # << >>
                        THEN albums__in(files, filters.albums) ELSE files
           found == IF filters.search # << >>
                    THEN Searched(basefile, in_albums, filters.search) ELSE in_albums
       IN  \E unsorted \in Sorted(basefile, found, << >>) :
            LET page == Sliced(unsorted, filters.offset, filters.limit)
            IN  \E ordered \in Sorted(basefile,
                                [k \in DOMAIN found |-> IF k \in Range(page) THEN 1 ELSE 0],
                                filters.sorting) :
                    last' = ListResponse("file_list", u, filters, found, ordered)
    /\ UNCHANGED <<basefile, userperms, groupperms, album, memberships, now, pc, loc>>

\* GET /files/: the filters, the search, the sorting, offset and limit
file_list(u, filters) ==
    /\ LET files == file_list_queryset(u)
           in_albums == IF filters.albums # << >>
                        THEN albums__in(files, filters.albums) ELSE files
           found == IF filters.search # << >>
                    THEN Searched(basefile, in_albums, filters.search) ELSE in_albums
       IN  \E ordered \in Sorted(basefile, found, filters.sorting) :
            last' = ListResponse("file_list", u, filters, found,
                        Sliced(ordered, filters.offset, filters.limit))
    /\ UNCHANGED <<basefile, userperms, groupperms, album, memberships, now, pc, loc>>

\* GET /albums/ without the files filter: every album, searched, sorted,
\* then offset and limit
album_list(u, filters) ==
    /\ LET albums == [a \in DOMAIN album |-> 1]
           found == IF filters.search # << >>
                    THEN Searched(album, albums, filters.search) ELSE albums
       IN  \E ordered \in Sorted(album, found, filters.sorting) :
            last' = ListResponse("album_list", u, filters, found,
                        Sliced(ordered, filters.offset, filters.limit))
    /\ UNCHANGED <<basefile, userperms, groupperms, album, memberships, now, pc, loc>>

\* filter_albums with the albums taken together: a file in any of them
filter_albums_any(queryset, value) ==
    IF value = << >> THEN queryset
    ELSE [f \in DOMAIN queryset |->
            IF queryset[f] > 0 /\ \E r \in memberships :
                    r.basefile = f /\ r.album \in Range(value) /\ Contains(r.period, now)
            THEN 1 ELSE 0]

\* FileFilter.filter_albums: one filter() per album, each on a membership of
\* that album whose period contains now
filter_albums(queryset, value) ==
    LET loop[i \in 0..Len(value)] ==
            IF i = 0 THEN queryset
            ELSE [f \in DOMAIN queryset |->
                    IF loop[i - 1][f] > 0 /\ \E r \in memberships :
                            r.basefile = f /\ r.album = value[i] /\ Contains(r.period, now)
                    THEN 1 ELSE 0]
    IN  loop[Len(value)]

\* FileListView: get_queryset filtered by the FileFilter filterset
FileListView(u, filters) ==
    /\ LET files == filter_albums(get_permitted(u), filters.albums)
       IN  \E ordered \in Sorted(basefile, files, << >>) :
            last' = ListResponse("FileListView", u, filters, files, ordered)
    /\ UNCHANGED <<basefile, userperms, groupperms, album, memberships, now, pc, loc>>

FileListStep == \E u \in Principals : file_list(u, NoFilters) \/ FileListView(u, NoFilters)

FileUploadStep ==
    \E f \in FileIds :
        \/ upload("creator", f, TRUE, TRUE)
        \/ \E supported, valid \in BOOLEAN : upload("creator", f, supported, valid)
        \/ upload(Anonymous, f, TRUE, TRUE)

FileActionStep ==
    \E u \in Users, uuids \in FileLists, check \in BOOLEAN :
        \/ approve(u, uuids, check)
        \/ unapprove(u, uuids, check)
        \/ publish(u, uuids, check)
        \/ unpublish(u, uuids, check)

FileDeleteStep == \E u \in Users, f \in FileIds : FileDeleteView(u, f)

MediaStep ==
    \E u \in Principals, path \in MediaPaths, exists \in BOOLEAN :
        bma_media_view(u, path, exists)

NextFiles ==
    \/ FileUploadStep
    \/ FileActionStep
    \/ FileDeleteStep
    \/ MediaStep
    \/ FileListStep

SpecFiles == Init /\ [][NextFiles]_vars

\* ------------------------------------------------------------------------
\* The flag operations of the model layer, on one file (BaseFile) and on a
\* queryset (BaseFileQuerySet), over files that are members of an album
\* ------------------------------------------------------------------------
\* BaseFile.approve/unapprove/publish/unpublish/softdelete/undelete: the
\* field and the value each hands to update_field
BaseFileMethods ==
    [approve    |-> [field |-> "approved",  value |-> TRUE],
     unapprove  |-> [field |-> "approved",  value |-> FALSE],
     publish    |-> [field |-> "published", value |-> TRUE],
     unpublish  |-> [field |-> "published", value |-> FALSE],
     softdelete |-> [field |-> "deleted",   value |-> TRUE],
     undelete   |-> [field |-> "deleted",   value |-> FALSE]]

\* one of the six methods called on the instance of a stored file
BaseFileCall(f, method) ==
    /\ f \in DOMAIN basefile
    /\ update_field(f, BaseFileMethods[method].field, BaseFileMethods[method].value)
    /\ last' = [op |-> method, layer |-> "BaseFile", files |-> {f}]
    /\ UNCHANGED <<userperms, groupperms, album, memberships, now, pc, loc>>

\* one of the six methods called on a queryset of stored files
BaseFileQuerySetCall(queryset, method) ==
    /\ queryset \subseteq DOMAIN basefile
    /\ basefile' = change_bool(basefile, queryset, BaseFileQuerySet[method].field,
                               BaseFileQuerySet[method].value)
    /\ last' = [op |-> method, layer |-> "BaseFileQuerySet", files |-> queryset]
    /\ UNCHANGED <<userperms, groupperms, album, memberships, now, pc, loc>>

NextFlags ==
    \/ \E f \in FileIds : upload("creator", f, TRUE, TRUE)
    \/ album_create("curator", "a1", TitleOnly)
    \/ \E f \in FileIds : AddMembers("a1", <<f>>)
    \/ \E f \in FileIds, method \in DOMAIN BaseFileMethods : BaseFileCall(f, method)
    \/ \E queryset \in SUBSET FileIds, method \in DOMAIN BaseFileQuerySet :
            BaseFileQuerySetCall(queryset, method)

SpecFlags == Init /\ [][NextFlags]_vars

\* ------------------------------------------------------------------------
\* Concurrent flag operations: two requests that each load a file into an
\* instance and then call one of the six methods of BaseFile on it
\* ------------------------------------------------------------------------
\* Model.save() without update_fields: every column of the instance is written
save_all_fields(table, f, instance, update_fields) ==
    [table EXCEPT ![f] = instance]

\* Model.save(update_fields=...): an UPDATE of the listed columns of the row
\* with the values the instance holds
save(table, f, instance, update_fields) ==
    [table EXCEPT ![f] =
        [column \in DOMAIN @ |->
            IF column \in update_fields THEN instance[column] ELSE @[column]]]

\* a request loads the file: the instance holds the row as it is now
InstanceLoad(w, f, method) ==
    /\ w \notin DOMAIN pc
    /\ f \in DOMAIN basefile
    /\ pc' = Put(pc, w, "loaded")
    /\ loc' = Put(loc, w, [file |-> f, method |-> method, instance |-> basefile[f]])
    /\ UNCHANGED <<basefile, userperms, groupperms, album, memberships, now, last>>

\* BaseFile.update_field on the instance loaded earlier: setattr, then
\* save(update_fields=[field, "updated"])
InstanceUpdateField(w) ==
    /\ w \in DOMAIN pc /\ pc[w] = "loaded"
    /\ LET field == BaseFileMethods[loc[w].method].field
           instance == [loc[w].instance EXCEPT ![field] = BaseFileMethods[loc[w].method].value]
       IN  /\ basefile' = save(basefile, loc[w].file, instance, {field})
           /\ loc' = [loc EXCEPT ![w].instance = instance]
    /\ pc' = [pc EXCEPT ![w] = "done"]
    /\ UNCHANGED <<userperms, groupperms, album, memberships, now, last>>

NextInstance ==
    \/ UploadStep
    \/ \E w \in Workers, f \in FileIds, method \in DOMAIN BaseFileMethods :
            InstanceLoad(w, f, method)
    \/ \E w \in Workers : InstanceUpdateField(w)

SpecInstance == Init /\ [][NextInstance]_vars

\* ------------------------------------------------------------------------
\* The file admin: the actions of BaseFileAdmin on a selection of files
\* ------------------------------------------------------------------------
\* FileAdminSite.has_permission: creators, moderators and staff
has_permission(u) == u \in {"creator", "moderator", "superuser"}

\* the permission codename of an admin action: f"{action}_basefile"
ActionPermission ==
    [approve |-> "approve_basefile", unapprove |-> "unapprove_basefile",
     publish |-> "publish_basefile", unpublish |-> "unpublish_basefile"]

\* BaseFileAdmin.get_actions: the actions the user may perform on some file
get_actions(u) ==
    {action \in DOMAIN ActionPermission :
        get_objects_for_user(u, ActionPermission[action], DOMAIN basefile) # {}}

\* BaseFileAdmin.get_queryset: the files the user may see
get_queryset(u) ==
    IF is_superuser(u) THEN DOMAIN basefile
    ELSE {f \in DOMAIN basefile : get_permitted(u)[f] > 0}

\* the message of an admin action: the numbers selected, valid and updated
AdminResponse(action, u, selection, selected, valid, updated) ==
    [op |-> "admin", action |-> action, code |-> 302, user |-> u, files |-> selection,
     selected |-> selected, valid |-> valid, updated |-> updated]

\* the admin action applied to the whole selection, permitted or not
admin_action_whole_selection(u, selection, action) ==
    /\ has_permission(u)
    /\ action \in get_actions(u)
    /\ Range(selection) \cap get_queryset(u) # {}
    /\ LET queryset == Range(selection) \cap get_queryset(u)
           valid == get_objects_for_user(u, ActionPermission[action], queryset)
       IN  /\ basefile' = change_bool(basefile, queryset,
                                BaseFileQuerySet[action].field,
                                BaseFileQuerySet[action].value)
           /\ last' = AdminResponse(action, u, selection, Cardinality(queryset),
                                    Cardinality(valid), Cardinality(queryset))
    /\ UNCHANGED <<userperms, groupperms, album, memberships, now, pc, loc>>

\* the admin action reporting as updated the rows whose flag it changed
admin_action_counts_changed(u, selection, action) ==
    /\ has_permission(u)
    /\ action \in get_actions(u)
    /\ Range(selection) \cap get_queryset(u) # {}
    /\ LET queryset == Range(selection) \cap get_queryset(u)
           valid == get_objects_for_user(u, ActionPermission[action], queryset)
       IN  /\ basefile' = change_bool(basefile, valid,
                                BaseFileQuerySet[action].field,
                                BaseFileQuerySet[action].value)
           /\ last' = AdminResponse(action, u, selection, Cardinality(queryset),
                                    Cardinality(valid),
                                    Cardinality({f \in valid : basefile'[f] # basefile[f]}))
    /\ UNCHANGED <<userperms, groupperms, album, memberships, now, pc, loc>>

\* BaseFileAdmin.approve / unapprove / publish / unpublish on the selected
\* rows of the changelist; the admin runs an action only for a user of the
\* site, when get_actions offers it and some listed row is selected.
\* updated is what change_bool returns: the count of the valid queryset,
\* evaluated again after the update
admin_action(u, selection, action) ==
    /\ has_permission(u)
    /\ action \in get_actions(u)
    /\ Range(selection) \cap get_queryset(u) # {}
    /\ UNCHANGED <<userperms, groupperms, album, memberships, now, pc, loc>>
    /\ LET queryset == Range(selection) \cap get_queryset(u)
           valid == get_objects_for_user(u, ActionPermission[action], queryset)
       IN  /\ basefile' = change_bool(basefile, valid,
                                BaseFileQuerySet[action].field,
                                BaseFileQuerySet[action].value)
           /\ last' = AdminResponse(action, u, selection, Cardinality(queryset),
                                    Cardinality(valid),
                                    Cardinality(valid \cap get_queryset(u)'))

\* the selections and uuid lists of the batch requests
BatchLists == {<<"f1">>, <<"f2">>, <<"f1", "f2">>}

AdminActionStep ==
    \E u \in Users, selection \in BatchLists, action \in DOMAIN ActionPermission :
        admin_action(u, selection, action)

BatchApiStep ==
    \E u \in Users, uuids \in BatchLists :
        \/ approve(u, uuids, FALSE)
        \/ unapprove(u, uuids, FALSE)
        \/ publish(u, uuids, FALSE)
        \/ unpublish(u, uuids, FALSE)

NextAdmin ==
    \/ upload("creator", "f1", TRUE, TRUE)
    \/ upload("curator", "f2", TRUE, TRUE)
    \/ AdminActionStep
    \/ BatchApiStep

SpecAdmin == Init /\ [][NextAdmin]_vars

\* ------------------------------------------------------------------------
\* The API as a whole: every mutating endpoint of files and albums, called
\* by users with and without the permission, with and without check
\* ------------------------------------------------------------------------
\* the uuid list of the action requests
ApiLists == {<<"f1">>}

\* the album payloads: a title only, one file, and an empty list
ApiPayloads ==
    {TitleOnly,
     [title |-> Absent, description |-> Absent, files |-> <<(<<"f1">>)>>],
     [title |-> Absent, description |-> Absent, files |-> <<(<< >>)>>]}

ApiFileActionStep ==
    \E u \in Users, uuids \in ApiLists, check \in BOOLEAN :
        \/ approve(u, uuids, check)
        \/ unapprove(u, uuids, check)
        \/ publish(u, uuids, check)
        \/ unpublish(u, uuids, check)

\* a batch naming the uploaded file and a uuid that no file has
ApiMixedBatchStep ==
    \/ approve("moderator", <<"f1", "f2">>, FALSE)
    \/ publish("creator", <<"f1", "f2">>, FALSE)

NoMetadata == [title |-> Absent, thumbnail_url |-> Absent]

\* updates by the uploader with every payload, with and without check, and
\* one update each by the other principals (the handler answers those before
\* it reads the payload)
ApiFileUpdateStep ==
    \E method \in {"PUT", "PATCH"} :
        \/ \E metadata \in FileUpdateRequestSchema, check \in BOOLEAN :
                file_update("creator", "f1", method, metadata, check)
        \/ \E u \in Principals \ {"creator"}, check \in BOOLEAN :
                file_update(u, "f1", method, NoMetadata, check)

ApiFileDeleteStep ==
    \E u \in Principals, check \in BOOLEAN : file_delete(u, "f1", check)

ApiAlbumUpdateStep ==
    \E method \in {"PUT", "PATCH"} :
        \/ \E payload \in ApiPayloads : album_update("curator", "a1", method, payload, FALSE)
        \/ album_update("curator", "a1", method, TitleOnly, TRUE)
        \/ \E check \in BOOLEAN : album_update("creator", "a1", method, TitleOnly, check)

ApiAlbumDeleteStep ==
    \E u \in Principals, check \in BOOLEAN : album_delete(u, "a1", check)

NextApi ==
    \/ upload("creator", "f1", TRUE, TRUE)
    \/ album_create("curator", "a1", TitleOnly)
    \/ ApiMixedBatchStep
    \/ ApiFileActionStep
    \/ ApiFileUpdateStep
    \/ ApiFileDeleteStep
    \/ ApiAlbumUpdateStep
    \/ ApiAlbumDeleteStep

SpecApi == Init /\ [][NextApi]_vars

\* ------------------------------------------------------------------------
\* Listings filtered by albums: two files, two albums, memberships opened
\* and closed, a file made public, and the two listings
\* ------------------------------------------------------------------------
\* the albums parameter of a listing
AlbumLists == {<<"a1">>, <<"a2">>, <<"a1", "a2">>}

ListMemberStep ==
    \E a \in AlbumIds, f \in FileIds :
        \/ AddMembers(a, <<f>>)
        \/ RemoveMembers(a, <<f>>)

ListPublishStep ==
    \/ approve("moderator", <<"f1">>, FALSE)
    \/ publish("creator", <<"f1">>, FALSE)

AlbumFilterStep ==
    \E u \in {"creator", Anonymous}, albums \in AlbumLists :
        \/ file_list(u, [NoFilters EXCEPT !.albums = albums])
        \/ FileListView(u, [NoFilters EXCEPT !.albums = albums])

NextList ==
    \/ \E f \in FileIds : upload("creator", f, TRUE, TRUE)
    \/ \E a \in AlbumIds : album_create("curator", a, TitleOnly)
    \/ ListMemberStep
    \/ ListPublishStep
    \/ AlbumFilterStep

SpecList == Init /\ [][NextList]_vars

\* ------------------------------------------------------------------------
\* Sorted pages: three files of one uploader and two albums, with titles
\* drawn from three texts, listed with every search, sorting, offset and limit
\* ------------------------------------------------------------------------
MaxOffset == 2
MaxLimit == 2

SortFiles == <<"f1", "f2", "f3">>
SortAlbums == <<"a1", "a2">>

\* the titles "1", "10" and "2" as sequences of digits
SortTexts == {<<1>>, <<1, 0>>, <<2>>}

\* the rows of n uploads by the creator, in the order of SortFiles, with the
\* titles given; the first file has a description
UploadedFiles(titles) ==
    [f \in Range(SortFiles) |->
        LET i == CHOOSE k \in DOMAIN SortFiles : SortFiles[k] = f
        IN  [uploader |-> "creator", approved |-> FALSE, published |-> FALSE,
             deleted |-> FALSE, title |-> titles[i],
             description |-> IF i = 1 THEN <<1>> ELSE << >>,
             thumbnail_url |-> DEFAULT_THUMBNAIL_URL, created |-> i]]

\* the rows of the albums created by the curator, in the order of SortAlbums
CreatedAlbums(titles) ==
    [a \in Range(SortAlbums) |->
        LET i == CHOOSE k \in DOMAIN SortAlbums : SortAlbums[k] = a
        IN  [owner |-> "curator", title |-> titles[i], description |-> << >>,
             deleted |-> FALSE, created |-> i]]

InitSort ==
    /\ \E titles \in [DOMAIN SortFiles -> SortTexts] : basefile = UploadedFiles(titles)
    /\ album = CreatedAlbums(<<(<<2>>), (<<1, 0>>)>>)
    /\ userperms = {<<"creator", p, f>> : p \in UploaderPerms, f \in Range(SortFiles)}
                    \cup {<<"curator", p, a>> : p \in {"change_album", "delete_album"},
                                                 a \in Range(SortAlbums)}
    /\ groupperms = {<<"moderators", p, f>> : p \in ModeratorPerms, f \in Range(SortFiles)}
    /\ memberships = {}
    /\ now = 0
    /\ last = NoRequest
    /\ pc = [w \in {} |-> 0]
    /\ loc = [w \in {} |-> 0]

\* the query parameters of the sorted listings
SortFilters ==
    [albums : {<< >>}, search : {<< >>, <<1>>},
     sorting : {<< >>, <<"title", "_asc">>, <<"title", "_desc">>, <<"created", "_desc">>},
     offset : 0..MaxOffset, limit : 0..MaxLimit]

NextSort ==
    \/ \E filters \in SortFilters : file_list("creator", filters)
    \/ \E filters \in SortFilters : album_list(Anonymous, filters)

SpecSort == InitSort /\ [][NextSort]_vars

\* ------------------------------------------------------------------------
\* Two albums and their readers
\* ------------------------------------------------------------------------
NextQuery ==
    \/ \E f \in FileIds : upload("creator", f, TRUE, TRUE)
    \/ \E a \in AlbumIds : album_create("curator", a, TitleOnly)
    \/ \E a \in AlbumIds, fs \in FileLists : AddMembers(a, fs)
    \/ \E a \in AlbumIds, fs \in FileLists : RemoveMembers(a, fs)
    \/ \E a \in AlbumIds, when \in 0..MaxTime : ActiveFilesQuery(a, when)

SpecQuery == Init /\ [][NextQuery]_vars

\* ------------------------------------------------------------------------
\* Properties of the album store
\* ------------------------------------------------------------------------
PairRows(rows, f, a) == {r \in rows : r.basefile = f /\ r.album = a}

SameButPeriod(r, q) ==
    r.uuid = q.uuid /\ r.basefile = q.basefile /\ r.album = q.album

\* C6: add_members is idempotent.  A file that already has an open membership
\* in the album gets no new row and none of its rows changes, the call does
\* not fail, and running add_members with the same files once more leaves
\* the rows of the first call as they are.
C6_AddMembersIdempotent ==
    [][last'.op = "add_members" => \A a \in {last'.album}, fs \in {last'.files} :
        AddMembers(a, fs) =>
            /\ \A f \in Range(fs) :
                OpenRows(memberships, a, {f}) # {}
                    => PairRows(memberships', f, a) = PairRows(memberships, f, a)
            /\ (\A f \in Range(fs) : OpenRows(memberships, a, {f}) # {})
                    => (memberships' = memberships /\ last'.code = 200)
            /\ add_members(Db(memberships', now', TRUE), a, fs, DOMAIN basefile).rows
                    = memberships'
      ]_vars

\* C6 witness: add_members returned after it was called with a file that
\* already had an open membership, started before the call, in the album
\* next to an older closed one
C6_Witness ==
    /\ last.op = "add_members" /\ last.code = 200
    /\ \E r, q \in memberships :
        /\ r.album = last.album /\ r.basefile \in Range(last.files)
        /\ q.album = r.album /\ q.basefile = r.basefile
        /\ q.period.upper # None
        /\ r.period.upper = None /\ r.period.lower + 1 < now

\* C7: remove_members only closes.  Each open membership of the named files
\* keeps its identity and start and gets an end at the time of the call, every
\* other row (closed rows included) is left as it was, no row is deleted, a
\* file without open membership is skipped without error and afterwards none
\* of the named files is active.  A PATCH with files=[] does the same to
\* every active file of the album.
ClosesOnly(a, fs) ==
    /\ {r.uuid : r \in memberships'} = {r.uuid : r \in memberships}
    /\ \A r \in memberships :
        IF r \in OpenRows(memberships, a, fs)
        THEN \E q \in memberships' :
                /\ SameButPeriod(r, q)
                /\ q.period.lower = r.period.lower
                /\ q.period.upper # None
                /\ now <= q.period.upper /\ q.period.upper < now'
        ELSE r \in memberships'
    /\ active_files(memberships', a, now') \cap fs = {}

C7_RemoveMembersAppendOnly ==
    [][\A a \in AlbumIds :
        /\ (last'.op = "remove_members" /\ last'.album = a) => \A fs \in {last'.files} :
            RemoveMembers(a, fs) => (ClosesOnly(a, Range(fs)) /\ last'.code = 200)
        /\ (last'.op = "PATCH" /\ last'.code = 200) => \A u \in Users, p \in Requests :
            (IsSet(p, "files") /\ Dict(p, "files") = << >> /\ has_perm(u, "change_album", a)
                /\ album_update(u, a, "PATCH", p, FALSE))
                => (ClosesOnly(a, FileIds) /\ active_files(memberships', a, now') = {})
      ]_vars

\* C7 witness: remove_members has just closed the open membership of a file
\* that also has an older closed membership in the album
C7_Witness ==
    /\ last.op = "remove_members" /\ last.code = 200
    /\ \E r, q \in memberships :
        /\ r.uuid # q.uuid
        /\ r.album = last.album /\ r.basefile \in Range(last.files)
        /\ q.album = r.album /\ q.basefile = r.basefile
        /\ r.period.upper # None /\ r.period.upper < q.period.lower
        /\ q.period.upper # None /\ q.period.upper + 1 = now

\* what remove_members([f]) followed by add_members([f]) makes of the table
RemoveThenAdd(a, f, ms) ==
    LET removed == CloseAll(DbNow, ms)
    IN  add_members(Db(removed.rows, removed.now, TRUE), a, <<f>>, DOMAIN basefile)

\* C8 as stated: remove_members then add_members on an active member leaves
\* exactly one open membership, keeps the earlier interval as a closed row
\* and adds 2 rows to the pair.
C8_AsStated ==
    \A a \in DOMAIN album, f \in DOMAIN basefile :
        OpenRows(memberships, a, {f}) # {} =>
            \A ms \in Orderings(RemoveTargets(memberships, a, {f})) :
                LET after == RemoveThenAdd(a, f, ms).rows
                IN  /\ Cardinality(OpenRows(after, a, {f})) = 1
                    /\ Cardinality(PairRows(after, f, a))
                            = Cardinality(PairRows(memberships, f, a)) + 2

\* C8 amended: remove_members then add_members on an active member leaves the
\* file active with exactly one open membership, keeps the earlier interval as
\* a closed row with its start, and adds 1 row to the pair: the closed row is
\* the formerly open row, the new open row is the only new one.
C8_RemoveThenAdd ==
    \A a \in DOMAIN album, f \in DOMAIN basefile :
        OpenRows(memberships, a, {f}) # {} =>
            \A ms \in Orderings(RemoveTargets(memberships, a, {f})) :
                LET done == RemoveThenAdd(a, f, ms)
                    after == done.rows
                IN  /\ done.ok
                    /\ f \in active_files(after, a, done.now)
                    /\ Cardinality(OpenRows(after, a, {f})) = 1
                    /\ \A r \in OpenRows(memberships, a, {f}) :
                        \E q \in after :
                            /\ SameButPeriod(r, q)
                            /\ q.period.lower = r.period.lower
                            /\ q.period.upper # None
                    /\ \A r \in PairRows(memberships, f, a) :
                        r.period.upper # None => r \in after
                    /\ Cardinality(PairRows(after, f, a))
                            = Cardinality(PairRows(memberships, f, a)) + 1

\* C8 witness: a file was removed and added again: add_members returned,
\* having opened a membership for a file whose earlier membership is closed
C8_Witness ==
    /\ last.op = "add_members" /\ last.code = 200
    /\ \E r, q \in memberships :
        /\ r.album = last.album /\ r.basefile \in Range(last.files)
        /\ q.album = r.album /\ q.basefile = r.basefile
        /\ r.period.upper # None /\ q.period.upper = None
        /\ r.period.upper < q.period.lower
        /\ q.period.lower + 1 = now

\* C10 as stated: a PATCH without the files field by a user who may change
\* the album leaves every membership row as it was and applies exactly the
\* fields that are present.
C10_PatchWithoutFiles ==
    [][last'.op = "PATCH" => \A a \in DOMAIN album, u \in Users, p \in Requests :
        (~IsSet(p, "files") /\ has_perm(u, "change_album", a)
            /\ album_update(u, a, "PATCH", p, FALSE))
            => /\ memberships' = memberships
               /\ album' = [album EXCEPT ![a] =
                                SetFields(@, p, {"title", "description"}, FALSE)]
               /\ last'.code = 200
      ]_vars

\* C9: active_files(album, t) is exactly the set of files with a membership
\* row of that album whose half-open period [start, end) contains t;
\* memberships in other albums do not count.
C9_ActiveFiles ==
    last.op = "active_files" =>
        last.result =
            {f \in FileIds : \E r \in memberships :
                /\ r.basefile = f /\ r.album = last.album
                /\ r.period.lower <= last.when
                /\ (r.period.upper = None \/ last.when < r.period.upper)}

\* C9 witness: a query at the very end of a closed membership of the album,
\* while the same file is a member of the other album at that time, and
\* the result holds another file
C9_Witness ==
    /\ last.op = "active_files"
    /\ \E r, o \in memberships :
        /\ r.album = last.album /\ r.period.upper = last.when
        /\ o.album # last.album /\ o.basefile = r.basefile
        /\ Contains(o.period, last.when)
        /\ r.basefile \notin last.result
        /\ last.result # {}

\* what the claim calls visible: the view permission held directly, through
\* a group or as superuser, or a file that is public
PublicFile(f) ==
    basefile[f].approved /\ basefile[f].published /\ ~basefile[f].deleted

HoldsView(f, u) ==
    \/ <<u, "view_basefile", f>> \in userperms
    \/ \E g \in Groups : u = "moderator" /\ <<g, "view_basefile", f>> \in groupperms
    \/ u = "superuser"

\* C3: permitted(file, user) is true iff the user holds the view permission
\* (directly, through a group, or as superuser) or the file is approved,
\* published and not deleted; a public file is visible to everybody, the
\* anonymous user included, and a media download of a file is refused (403)
\* exactly when permitted is false.
C3_Permitted ==
    /\ \A f \in DOMAIN basefile, u \in Principals :
        /\ permitted(f, u) <=> (HoldsView(f, u) \/ PublicFile(f))
        /\ PublicFile(f) => permitted(f, u)
    /\ last.op = "media" =>
        (last.code = 403 <=>
            /\ last.files # << >>
            /\ last.files[1] \in DOMAIN basefile
            /\ ~(HoldsView(last.files[1], last.user) \/ PublicFile(last.files[1])))

\* C3 witness: the anonymous user, holding no permission, is served a
\* public file while the other file, not public, exists
C3_Witness ==
    /\ last.op = "media" /\ last.user = Anonymous /\ last.code = 200
    /\ PublicFile(last.files[1])
    /\ ~HoldsView(last.files[1], Anonymous)
    /\ \E g \in DOMAIN basefile : ~PublicFile(g) /\ ~permitted(g, Anonymous)

\* the status an action endpoint asks for
OldStatus ==
    [approve |-> "PENDING_MODERATION", publish |-> "UNPUBLISHED",
     unpublish |-> "PUBLISHED"]

WrongState(file_uuids, act) ==
    \E i \in DOMAIN file_uuids :
        \/ file_uuids[i] \notin DOMAIN basefile
        \/ Status(basefile[file_uuids[i]]) # OldStatus[act]

C5_UploaderPublishPerms ==
    \A f \in DOMAIN basefile :
        /\ <<basefile[f].uploader, "publish_basefile", f>> \in userperms
            <=> basefile[f].approved
        /\ <<basefile[f].uploader, "unpublish_basefile", f>> \in userperms
            <=> basefile[f].approved

\* C1: for every (file, album) pair no two AlbumMember rows have
\* overlapping periods, whatever album creations, add_members,
\* remove_members and updates ran, one after the other or concurrently.
C1_NoOverlap ==
    \A r, o \in memberships :
        (r.uuid # o.uuid /\ r.basefile = o.basefile /\ r.album = o.album)
            => ~Overlaps(r.period, o.period)

\* C1 witness: a request found no open membership of the pair and read the
\* clock; a membership of the pair that was opened and closed since then is
\* in the table, and the insert of the request was rejected by the constraint
C1_Witness ==
    \E w \in DOMAIN pc, r \in memberships :
        /\ pc[w] = "retry"
        /\ r.album = loc[w].album /\ r.basefile = Head(loc[w].todo)
        /\ r.period.upper # None
        /\ loc[w].lower < r.period.lower
        /\ OpenRows(memberships, r.album, {r.basefile}) = {}

AtMostOneOpen ==
    \A a \in AlbumIds, f \in FileIds : Cardinality(OpenRows(memberships, a, {f})) <= 1

\* an insert for a pair that has an open row fails: the table is left as it
\* was and the request goes on to its second get
SecondInsertFails ==
    \A w \in Workers :
        (/\ w \in DOMAIN pc /\ pc[w] = "insert" /\ pc'[w] # "insert"
         /\ OpenRows(memberships, loc[w].album, {Head(loc[w].todo)}) # {})
            => (memberships' = memberships /\ pc'[w] = "retry")

\* C2: when two requests concurrently add the same file to the same album,
\* in every interleaving at most one open row exists for the pair; the
\* second insert fails and never produces a second open row.
C2_ConcurrentAdd == []AtMostOneOpen /\ [][SecondInsertFails]_vars

\* C2 witness: two requests adding the same file to the same album both
\* found no open row; one has inserted and returned, the insert of the
\* other was rejected, and the pair has one open row
C2_Witness ==
    \E w, v \in DOMAIN pc :
        /\ w # v /\ pc[w] = "done" /\ loc[w].code = 200 /\ pc[v] = "retry"
        /\ loc[w].album = loc[v].album /\ loc[w].files = loc[v].files
        /\ loc[w].lower # None /\ loc[v].lower # None
        /\ Len(loc[v].files) = 1
        /\ Cardinality(OpenRows(memberships, loc[v].album, {loc[v].files[1]})) = 1

\* the rows of album a as a PUT with the file list S leaves them: every open
\* row is closed in place, closed rows are kept, new rows are open rows of
\* files of S, and after a 200 each file of S has exactly one open row, a
\* new one, and the active files are the files of S
PutReplaces(a, S) ==
    /\ \A r \in memberships :
        IF r.album = a /\ r.period.upper = None
        THEN \E q \in memberships' :
                /\ SameButPeriod(r, q)
                /\ q.period.lower = r.period.lower
                /\ q.period.upper # None
        ELSE r \in memberships'
    /\ \A q \in memberships' :
        \/ \E r \in memberships : r.uuid = q.uuid
        \/ (q.album = a /\ q.basefile \in Range(S) /\ q.period.upper = None)
    /\ last'.code = 200 =>
        /\ active_files(memberships', a, now') = Range(S)
        /\ \A f \in Range(S) :
            /\ Cardinality(OpenRows(memberships', a, {f})) = 1
            /\ \A q \in OpenRows(memberships', a, {f}) :
                \A r \in memberships : r.uuid # q.uuid

\* the rows of album a as the symmetric difference leaves them: the open
\* rows of files of S are untouched, those of other files are closed, and
\* the files of S that were not active have a new open row
PutDifference(a, S) ==
    /\ \A r \in OpenRows(memberships, a, FileIds) :
        IF r.basefile \in Range(S)
        THEN r \in memberships'
        ELSE \E q \in memberships' :
                SameButPeriod(r, q) /\ q.period.upper # None
    /\ active_files(memberships', a, now') = Range(S)

\* C11 as stated: a PUT with the file set S closes the open memberships of
\* the active files not in S, opens memberships for the files of S that are
\* not active and leaves the rows of files in both untouched; afterwards
\* the active files are exactly S.
C11_AsStated ==
    [][(last'.op = "PUT" /\ last'.code = 200) =>
        \A p \in Requests :
            album_update("curator", "a1", "PUT", p, FALSE)
                => PutDifference("a1", Dict(p, "files"))]_vars

\* C11 amended: a PUT with the file list S closes the open membership of
\* every active file, also of the files of S, and opens a new membership
\* for each file of S; closed rows are kept; after a PUT answered 200 the
\* active files are exactly S, each with one open row that is new.
C11_PutReplaces ==
    [][(last'.op = "PUT" /\ last'.code \in {200, 500}) =>
        \A p \in Requests :
            album_update("curator", "a1", "PUT", p, FALSE)
                => PutReplaces("a1", Dict(p, "files"))]_vars

\* C11 witness: a PUT answered 200 whose last statement opened a membership
\* for a file right after the membership of that file was closed
C11_Witness ==
    /\ last.op = "PUT" /\ last.code = 200
    /\ \E q, r \in memberships :
        /\ q.album = "a1" /\ r.album = "a1" /\ q.basefile = r.basefile
        /\ q.period.upper # None /\ r.period.upper = None
        /\ r.period.lower = q.period.upper + 1
        /\ now = r.period.lower + 1

\* a listing holds exactly the permitted rows, each once
ListsPermitted(listing, u) ==
    /\ DOMAIN listing = DOMAIN basefile
    /\ \A f \in DOMAIN basefile :
        listing[f] = IF HoldsView(f, u) \/ PublicFile(f) THEN 1 ELSE 0

ListingMatchesPermitted ==
    /\ \A u \in Principals :
        /\ ListsPermitted(get_permitted(u), u)
        /\ ListsPermitted(file_list_queryset(u), u)
        /\ \A f \in DOMAIN basefile : (get_permitted(u)[f] = 1) <=> permitted(f, u)
    /\ last.op \in {"file_list", "FileListView"} => ListsPermitted(last.listing, last.user)

\* a file published after approval is listed for the anonymous user, and an
\* unpublished file is no longer listed for users without the view permission
PublishShowsUnpublishHides ==
    /\ (last'.op = "publish" /\ last'.code = 200) =>
        \A i \in DOMAIN last'.files :
            /\ file_list_queryset(Anonymous)'[last'.files[i]] = 1
            /\ get_permitted(Anonymous)'[last'.files[i]] = 1
    /\ (last'.op = "unpublish" /\ last'.code = 200) =>
        \A i \in DOMAIN last'.files, u \in Principals :
            ~HoldsView(last'.files[i], u) =>
                /\ file_list_queryset(u)'[last'.files[i]] = 0
                /\ get_permitted(u)'[last'.files[i]] = 0

\* C12: for every user and every state reached by upload, approve,
\* unapprove, publish, unpublish and soft delete, the unfiltered listing
\* holds a file exactly once if permitted(file, user) and not at all
\* otherwise; a file becomes visible to users without grants when it is
\* published after approval and disappears when it is unpublished.
C12_Listing == []ListingMatchesPermitted /\ [][PublishShowsUnpublishHides]_vars

\* C12 witness: the anonymous user lists the files and gets the public one,
\* which its uploader lists once as well, and not the approved file that
\* is not published
C12_Witness ==
    /\ last.op = "file_list" /\ last.user = Anonymous
    /\ \E f, g \in DOMAIN basefile :
        /\ PublicFile(f) /\ last.listing[f] = 1
        /\ HoldsView(f, basefile[f].uploader)
        /\ get_permitted(basefile[f].uploader)[f] = 1
        /\ basefile[g].approved /\ ~basefile[g].published /\ last.listing[g] = 0

\* the user holds the permission on the object directly, through the
\* moderators group, or is the superuser
Holds(u, perm, obj) ==
    \/ <<u, perm, obj>> \in userperms
    \/ (u = "moderator" /\ <<"moderators", perm, obj>> \in groupperms)
    \/ u = "superuser"

\* the permission each file endpoint asks for
PermissionOf ==
    [approve |-> "approve_basefile", unapprove |-> "unapprove_basefile",
     publish |-> "publish_basefile", unpublish |-> "unpublish_basefile",
     file_update |-> "change_basefile", file_delete |-> "delete_basefile"]

FileChanged(f) == f \in DOMAIN basefile /\ basefile'[f] # basefile[f]

AlbumChanged(a) ==
    /\ a \in DOMAIN album
    /\ \/ album'[a] # album[a]
       \/ {r \in memberships' : r.album = a} # {r \in memberships : r.album = a}

\* a file is changed only by the request of a user who holds the matching
\* permission on it, and so is an album; a success is answered only to such
\* a user
MutationByHolder ==
    /\ \A f \in FileIds :
        FileChanged(f) =>
            /\ last'.op \in DOMAIN PermissionOf
            /\ f \in Range(last'.files)
            /\ Holds(last'.user, PermissionOf[last'.op], f)
    /\ (last'.op \in DOMAIN PermissionOf /\ last'.code \in {200, 204}) =>
        \A i \in DOMAIN last'.files :
            Holds(last'.user, PermissionOf[last'.op], last'.files[i])
    /\ \A a \in AlbumIds :
        AlbumChanged(a) =>
            \/ last'.op = "album_delete" /\ last'.album = a
                    /\ Holds(last'.user, "delete_album", a)
            \/ /\ last'.op \in {"PUT", "PATCH"}
               /\ \A u \in Principals, payload \in ApiPayloads :
                    album_update(u, a, last'.op, payload, FALSE)
                        => Holds(u, "change_album", a)
    /\ last'.op \in {"PUT", "PATCH"} =>
        \A u \in Principals, payload \in ApiPayloads, check \in BOOLEAN :
            (album_update(u, "a1", last'.op, payload, check)
                /\ ~Holds(u, "change_album", "a1"))
                => (last'.code \in {403, 404} /\ ~AlbumChanged("a1"))

\* C13: every successful mutation of a file or album (approve, unapprove,
\* publish, unpublish, metadata update, delete, album update, album delete)
\* is made by a caller who holds the matching permission on the object
\* directly, through a group, or is a superuser; a caller with none of
\* these never changes the object.
C13_MutationByHolder == [][MutationByHolder]_vars

\* C13 witness: the moderator, who holds approve only through the group,
\* has approved a file, while the uploader and a curator hold no approve
\* permission on it
C13_Witness ==
    /\ last.op = "approve" /\ last.code = 200 /\ last.user = "moderator"
    /\ \A i \in DOMAIN last.files :
        /\ basefile[last.files[i]].approved
        /\ <<"moderator", "approve_basefile", last.files[i]>> \notin userperms
        /\ <<"moderators", "approve_basefile", last.files[i]>> \in groupperms
        /\ ~Holds("creator", "approve_basefile", last.files[i])

\* ------------------------------------------------------------------------
\* batch actions: the API endpoints and the admin actions
\* ------------------------------------------------------------------------
\* the status each API endpoint asks the files to be in ("" for any)
ActionStatus ==
    [approve |-> "PENDING_MODERATION", unapprove |-> "",
     publish |-> "UNPUBLISHED", unpublish |-> "PUBLISHED"]

\* a file of an API batch is eligible when it exists, the caller holds the
\* permission of the action on it and it is in the status the action asks for
Eligible(u, action, f) ==
    /\ f \in DOMAIN basefile
    /\ Holds(u, ActionPermission[action], f)
    /\ (ActionStatus[action] # "" => Status(basefile[f]) = ActionStatus[action])

\* the files of an admin selection the user is shown, and those of them the
\* user holds the permission of the action for
Listed(u, selection) ==
    {f \in Range(selection) \cap DOMAIN basefile :
        u = "superuser" \/ permitted(f, u)}

Valid(u, action, selection) ==
    {f \in Listed(u, selection) : Holds(u, ActionPermission[action], f)}

Applied(action, f) ==
    basefile'[f][BaseFileQuerySet[action].field] = BaseFileQuerySet[action].value

ApiBatchRequest ==
    /\ last'.op \in DOMAIN ActionStatus
    /\ last' # last \/ basefile' # basefile

AdminBatchRequest ==
    /\ last'.op = "admin"
    /\ last' # last \/ basefile' # basefile

AdminBatchPartial ==
    AdminBatchRequest =>
        LET u == last'.user
            action == last'.action
            valid == Valid(u, action, last'.files)
        IN  /\ \A f \in valid : Applied(action, f)
            /\ \A f \in DOMAIN basefile \ valid : basefile'[f] = basefile[f]
            /\ last'.selected = Cardinality(Listed(u, last'.files))
            /\ last'.valid = Cardinality(valid)
            /\ last'.updated = Cardinality(valid)

ApiBatchWhole ==
    ApiBatchRequest =>
        IF \A i \in DOMAIN last'.files :
                Eligible(last'.user, last'.op, last'.files[i])
        THEN /\ last'.code = 200
             /\ \A i \in DOMAIN last'.files : Applied(last'.op, last'.files[i])
        ELSE /\ last'.code = 403
             /\ basefile' = basefile

C15_ErrorChangesNothing ==
    [][last'.code \in {403, 404, 422} =>
            UNCHANGED <<basefile, album, memberships, userperms, groupperms>>]_vars

\* a metadata update by the uploader was rejected by validation and the row
\* still has the thumbnail it was uploaded with
C15_Witness ==
    /\ last.op = "file_update" /\ last.code = 422
    /\ \A i \in DOMAIN last.files :
        /\ has_perm(last.user, "change_basefile", last.files[i])
        /\ basefile[last.files[i]].thumbnail_url = DEFAULT_THUMBNAIL_URL
        /\ full_clean(basefile[last.files[i]])

\* ------------------------------------------------------------------------
\* check mode
\* ------------------------------------------------------------------------
\* the step is a request sent with check=true: one of the mutating
\* operations, called with the caller and the object of the answer and with
\* some payload, makes it
CheckCall ==
    \/ /\ last'.op = "approve"   /\ approve(last'.user, last'.files, TRUE)
    \/ /\ last'.op = "unapprove" /\ unapprove(last'.user, last'.files, TRUE)
    \/ /\ last'.op = "publish"   /\ publish(last'.user, last'.files, TRUE)
    \/ /\ last'.op = "unpublish" /\ unpublish(last'.user, last'.files, TRUE)
    \/ /\ last'.op = "file_update"
       /\ \E method \in {"PUT", "PATCH"}, metadata \in FileUpdateRequestSchema :
            file_update(last'.user, last'.files[1], method, metadata, TRUE)
    \/ /\ last'.op = "file_delete"
       /\ file_delete(last'.user, last'.files[1], TRUE)
    \/ /\ last'.op \in {"PUT", "PATCH"}
       /\ \E u \in Principals, a \in AlbumIds, payload \in ApiPayloads :
            album_update(u, a, last'.op, payload, TRUE)
    \/ /\ last'.op = "album_delete"
       /\ album_delete(last'.user, last'.album, TRUE)

Answers(call, codes) == ENABLED (call /\ last'.code \in codes)

\* C17: in every state a file operation called with check=true is answered
\* 202 exactly when the same call without check would succeed in that state;
\* a metadata update is answered 202 only for values that pass validation.
C17_CheckPredicts ==
    \A u \in Principals, f \in FileIds :
        /\ \A method \in {"PUT", "PATCH"}, metadata \in FileUpdateRequestSchema :
            Answers(file_update(u, f, method, metadata, TRUE), {202})
                <=> Answers(file_update(u, f, method, metadata, FALSE), {200})
        /\ Answers(file_delete(u, f, TRUE), {202})
                <=> Answers(file_delete(u, f, FALSE), {204})
        /\ \A uuids \in ApiLists :
            /\ Answers(approve(u, uuids, TRUE), {202})
                    <=> Answers(approve(u, uuids, FALSE), {200})
            /\ Answers(unapprove(u, uuids, TRUE), {202})
                    <=> Answers(unapprove(u, uuids, FALSE), {200})
            /\ Answers(publish(u, uuids, TRUE), {202})
                    <=> Answers(publish(u, uuids, FALSE), {200})
            /\ Answers(unpublish(u, uuids, TRUE), {202})
                    <=> Answers(unpublish(u, uuids, FALSE), {200})

\* ------------------------------------------------------------------------
\* album updates that fail
\* ------------------------------------------------------------------------
\* C18: an album PUT or PATCH that fails part-way (answer 500) leaves the
\* membership rows as they were before the request: the closing and the
\* opening of memberships are applied together or not at all.
C18_FailedUpdateKeepsRows ==
    [][(last'.op \in {"PUT", "PATCH"} /\ last'.code = 500)
            => memberships' = memberships]_vars

\* ------------------------------------------------------------------------
\* deleting a file
\* ------------------------------------------------------------------------
DeleteRequest(f) ==
    /\ last'.op = "file_delete" /\ last'.files = <<f>>
    /\ last' # last \/ basefile' # basefile
    /\ f \in DOMAIN basefile

\* C19: a delete request by the file's uploader succeeds (204, or 202 with
\* check) and a 204 marks the file deleted and keeps its row; a delete
\* request by an anonymous caller or by a user who is not the uploader and
\* holds no delete permission is answered 403 and changes nothing; after the
\* delete the file is visible only to users with a view grant.
C19_UploaderDeletes ==
    [][\A f \in FileIds :
        DeleteRequest(f) =>
            /\ last'.user = basefile[f].uploader => last'.code \in {202, 204}
            /\ last'.code = 204 =>
                /\ f \in DOMAIN basefile' /\ basefile'[f].deleted
                /\ \A u \in Principals : permitted(f, u)' => HoldsView(f, u)
            /\ (last'.user # basefile[f].uploader
                    /\ ~Holds(last'.user, "delete_basefile", f)) =>
                (last'.code = 403 /\ basefile' = basefile)]_vars

\* ------------------------------------------------------------------------
\* the flags and the stages
\* ------------------------------------------------------------------------
\* the flag combinations <<approved, published, deleted>> of each stage
StageFlags ==
    [PENDING_MODERATION |-> {<<FALSE, FALSE, FALSE>>},
     UNPUBLISHED        |-> {<<TRUE, FALSE, FALSE>>},
     PUBLISHED          |-> {<<TRUE, TRUE, FALSE>>},
     PENDING_DELETION   |-> {<<a, p, TRUE>> : a \in BOOLEAN, p \in BOOLEAN}]

Flags(row) == <<row.approved, row.published, row.deleted>>

\* C20: in every reachable state the flags of each file are those of exactly
\* one of the four stages, and no file is published while not approved.
C20_FlagsAreAStage ==
    \A f \in DOMAIN basefile :
        /\ Cardinality({stage \in DOMAIN StageFlags :
                            Flags(basefile[f]) \in StageFlags[stage]}) = 1
        /\ basefile[f].published => basefile[f].approved

\* ------------------------------------------------------------------------
\* listings filtered by albums
\* ------------------------------------------------------------------------
ActiveInAll(f, albums) ==
    \A i \in DOMAIN albums : f \in active_files(memberships, albums[i], now)

MemberOfAny(f, albums) ==
    \E i \in DOMAIN albums, r \in memberships : r.basefile = f /\ r.album = albums[i]

AlbumsListing(op) == last.op = op /\ last.filters.albums # << >>

\* C21 as stated: a listing filtered by albums, from the API as from the
\* view, holds exactly the visible files that are active members of every
\* album of the list now.
C21_AsStated ==
    (AlbumsListing("file_list") \/ AlbumsListing("FileListView")) =>
        \A f \in DOMAIN basefile :
            last.listing[f] = 1 <=>
                /\ HoldsView(f, last.user) \/ PublicFile(f)
                /\ ActiveInAll(f, last.filters.albums)

\* C21 (amended): the file list view filtered by albums=[A, B] holds exactly
\* the visible files that are active members of both A and B now, closed
\* memberships ignored; the API listing filtered by albums=[A, B] holds
\* exactly the visible files that have a membership row, open or closed, in
\* A or in B.
C21_AlbumFilters ==
    /\ AlbumsListing("FileListView") =>
        \A f \in DOMAIN basefile :
            last.listing[f] = 1 <=>
                /\ HoldsView(f, last.user) \/ PublicFile(f)
                /\ ActiveInAll(f, last.filters.albums)
    /\ AlbumsListing("file_list") =>
        \A f \in DOMAIN basefile :
            last.listing[f] = 1 <=>
                /\ HoldsView(f, last.user) \/ PublicFile(f)
                /\ MemberOfAny(f, last.filters.albums)

\* the view filtered by two albums lists a file active in both and leaves
\* out a visible file that is active in the first album only
C21_Witness ==
    /\ AlbumsListing("FileListView") /\ Len(last.filters.albums) = 2
    /\ \E f, g \in DOMAIN basefile :
        /\ last.listing[f] = 1 /\ ActiveInAll(f, last.filters.albums)
        /\ last.listing[g] = 0 /\ permitted(g, last.user)
        /\ g \in active_files(memberships, last.filters.albums[1], now)
        /\ g \notin active_files(memberships, last.filters.albums[2], now)

\* ------------------------------------------------------------------------
\* sorted pages
\* ------------------------------------------------------------------------
ListedTable == IF last.op = "album_list" THEN album ELSE basefile

\* the rows the filter and the search keep
Kept(k) ==
    /\ last.op = "file_list" =>
            (HoldsView(k, last.user) \/ PublicFile(k))
    /\ last.filters.search # << >> =>
            \/ icontains(ListedTable[k].title, last.filters.search)
            \/ icontains(ListedTable[k].description, last.filters.search)

\* s holds every kept row once, in the order of the requested sorting
SortedKept(s) ==
    /\ \A k \in DOMAIN ListedTable : Kept(k) <=> \E i \in DOMAIN s : s[i] = k
    /\ \A i, j \in DOMAIN s : s[i] = s[j] => i = j
    /\ \A i \in 1..(Len(s) - 1) :
        IF last.filters.sorting[2] = "_asc"
        THEN ~ColumnLess(last.filters.sorting[1], ListedTable[s[i + 1]], ListedTable[s[i]])
        ELSE ~ColumnLess(last.filters.sorting[1], ListedTable[s[i]], ListedTable[s[i + 1]])

\* rows is s without its first offset items, cut to limit items when a limit
\* is given
PageOf(rows, s, offset, limit) ==
    LET rest == IF Len(s) > offset THEN Len(s) - offset ELSE 0
        n == IF limit # 0 /\ limit < rest THEN limit ELSE rest
    IN  /\ Len(rows) = n
        /\ \A i \in 1..n : rows[i] = s[i + offset]

\* C22: a file or album listing with a sorting is the filtered and searched
\* set sorted by the requested key (ascending for _asc, descending for
\* _desc), without its first offset items and cut to at most limit items.
C22_FilterSearchSortOffsetLimit ==
    (last.op \in {"file_list", "album_list"} /\ last.filters.sorting # << >>) =>
        \E n \in 0..Cardinality(DOMAIN ListedTable) :
            \E s \in [1..n -> DOMAIN ListedTable] :
                /\ SortedKept(s)
                /\ PageOf(last.rows, s, last.filters.offset, last.filters.limit)

\* a file listing with a search, sorted by title downwards, offset 1 and
\* limit 1: of the three files found the page holds the one in the middle,
\* which is not the second file uploaded
C22_Witness ==
    /\ last.op = "file_list"
    /\ last.filters.search # << >> /\ last.filters.sorting = <<"title", "_desc">>
    /\ last.filters.offset = 1 /\ last.filters.limit = 1
    /\ Cardinality({k \in DOMAIN basefile : last.listing[k] = 1}) = 3
    /\ Len(last.rows) = 1
    /\ basefile[last.rows[1]].created # 2
    /\ \E k, m \in DOMAIN basefile :
        /\ TextLess(basefile[k].title, basefile[last.rows[1]].title)
        /\ TextLess(basefile[last.rows[1]].title, basefile[m].title)

\* ------------------------------------------------------------------------
\* the reasons of failed requests
\* ------------------------------------------------------------------------
\* a request for a file operation was answered in this step
FileCall(ops) ==
    /\ last'.op \in ops
    /\ last' # last \/ basefile' # basefile

Unknown(f) == f \notin DOMAIN basefile

NoGrant(u, op, f) == f \in DOMAIN basefile /\ ~Holds(u, PermissionOf[op], f)

WrongStatus(u, op, f) ==
    /\ f \in DOMAIN basefile /\ Holds(u, PermissionOf[op], f)
    /\ op \in DOMAIN ActionStatus /\ ActionStatus[op] # ""
    /\ Status(basefile[f]) # ActionStatus[op]

\* C23 as stated: the answer to a failed file request tells its cause: an
\* unknown uuid is answered not-found (404), a missing grant permission-denied
\* (403) and a wrong lifecycle state with a code of its own, for single
\* requests and batches alike, whoever the authenticated caller is.
C23_AsStated ==
    [][(FileCall(DOMAIN PermissionOf) /\ last'.user # Anonymous) =>
        \A i \in DOMAIN last'.files :
            LET f == last'.files[i]
                one == Len(last'.files) = 1
            IN  /\ (one /\ Unknown(f)) => last'.code = 404
                /\ (one /\ NoGrant(last'.user, last'.op, f)) => last'.code = 403
                /\ (one /\ WrongStatus(last'.user, last'.op, f))
                        => last'.code \notin {200, 202, 403, 404}
                /\ last'.code = 404 => \E j \in DOMAIN last'.files : Unknown(last'.files[j])
                /\ last'.code = 403 =>
                        \E j \in DOMAIN last'.files :
                            NoGrant(last'.user, last'.op, last'.files[j])]_vars

BatchReasons ==
    FileCall(DOMAIN ActionStatus) =>
        /\ (\E i \in DOMAIN last'.files :
                \/ Unknown(last'.files[i])
                \/ NoGrant(last'.user, last'.op, last'.files[i])
                \/ WrongStatus(last'.user, last'.op, last'.files[i]))
            <=> last'.code = 403
        /\ last'.code \in {200, 202, 403}

SingleReasons ==
    FileCall({"file_update", "file_delete"}) =>
        LET f == last'.files[1]
            u == last'.user
        IN  /\ last'.code = 404 <=> (u # Anonymous /\ Unknown(f))
            /\ last'.code = 403 <=> (u = Anonymous \/ NoGrant(u, last'.op, f))
            /\ last'.code = 422 => last'.op = "file_update"
            /\ last'.code \in {200, 202, 204, 403, 404, 422}

\* C23 (amended): a failed mutation is reported by its status code alone.
\* For a request on one file (metadata update, delete) an unknown uuid is
\* answered 404, an anonymous caller or a missing grant 403 and a failed
\* validation 422. For the batch actions approve, unapprove, publish and
\* unpublish an unknown uuid, a missing grant and a wrong lifecycle state
\* are all answered 403: the caller cannot tell the three causes apart.
C23_ReasonsByCode ==
    [][BatchReasons /\ SingleReasons]_vars

\* a batch naming an eligible file and an unknown uuid was answered 403 and
\* a delete of an unknown uuid would be answered 404
C23_Witness ==
    /\ last.op = "approve" /\ last.code = 403 /\ Len(last.files) = 2
    /\ \E i, j \in DOMAIN last.files :
        /\ last.files[i] \in DOMAIN basefile
        /\ Holds(last.user, "approve_basefile", last.files[i])
        /\ Status(basefile[last.files[i]]) = "PENDING_MODERATION"
        /\ last.files[j] \notin DOMAIN basefile

\* ------------------------------------------------------------------------
\* the exclusion constraint seen by the caller
\* ------------------------------------------------------------------------
\* C24: a request whose INSERT was refused by the exclusion constraint is
\* never ended by the storage error: after the refusal the request goes on
\* or is answered with a handled response, not with the 500 of an exception
\* that nothing caught.
C24_ConstraintErrorHandled ==
    [][\A w \in DOMAIN pc :
        (pc[w] = "retry" /\ pc'[w] = "done") => loc'[w].code # 500]_vars

\* ------------------------------------------------------------------------
\* the state after an upload
\* ------------------------------------------------------------------------
UploadedNow == DOMAIN basefile' \ DOMAIN basefile

\* C25: after a successful upload the new file is unapproved, unpublished
\* and not deleted, its uploader holds view, change and the soft-delete
\* permission on it and the moderators group holds view, approve and
\* unapprove on it; a rejected upload (403, 422) creates no file and no grant.
C25_UploadState ==
    [][/\ \A f \in UploadedNow :
            /\ last'.op = "upload" /\ last'.code = 201
            /\ ~basefile'[f].approved /\ ~basefile'[f].published /\ ~basefile'[f].deleted
            /\ \A p \in {"view_basefile", "change_basefile", "softdelete_basefile"} :
                    <<basefile'[f].uploader, p, f>> \in userperms'
            /\ \A p \in {"view_basefile", "approve_basefile", "unapprove_basefile"} :
                    <<"moderators", p, f>> \in groupperms'
       /\ (last'.op = "upload" /\ last'.code # 201) =>
            UNCHANGED <<basefile, userperms, groupperms>>
       /\ (last'.op = "upload" /\ last'.code = 201 /\ last' # last) =>
            UploadedNow # {}]_vars

\* an upload was answered 201 and a file in its first stage exists whose
\* uploader and the moderators hold the grants
C25_Witness ==
    /\ last.op = "upload" /\ last.code = 201
    /\ \E f \in DOMAIN basefile :
        /\ Status(basefile[f]) = "PENDING_MODERATION"
        /\ has_perm(basefile[f].uploader, "softdelete_basefile", f)
        /\ has_perm("moderator", "approve_basefile", f)
        /\ ~has_perm(basefile[f].uploader, "approve_basefile", f)

FlagRequest ==
    /\ last' # last
    /\ last'.op \in DOMAIN BaseFileMethods \cup DOMAIN BaseFileQuerySet
    /\ "layer" \in DOMAIN last'

\* the field and the value of the flag operation just called
FlagOf(call) ==
    IF call.layer = "BaseFile" THEN BaseFileMethods[call.op] ELSE BaseFileQuerySet[call.op]

UpdatesDone ==
    /\ Workers \subseteq DOMAIN pc
    /\ \A w \in Workers : pc[w] = "done" /\ loc[w].code = 200

\* C28: when two update requests with the file sets S1 and S2 have run on
\* the same album, in whatever interleaving, the active files of the album
\* are S1 or S2, never a mixture of both.
C28_OneOfTheTwo ==
    UpdatesDone =>
        active_files(memberships, "a1", now)
            \in {Range(loc["w1"].files), Range(loc["w2"].files)}

\* ------------------------------------------------------------------------
\* approve and publish of one file at the same time
\* ------------------------------------------------------------------------
\* worker w has called the method on file f and saved
Saved(w, f, method) ==
    /\ w \in DOMAIN pc /\ pc[w] = "done"
    /\ loc[w].file = f /\ loc[w].method = method

\* C29: when one request approves and another publishes the same file, each
\* on an instance it loaded, both flags are true once both have saved, also
\* when each loaded the file before the other saved: no save overwrites the
\* flag the other request wrote.
C29_BothFlagsSet ==
    \A f \in FileIds :
        (Saved("w1", f, "approve") /\ Saved("w2", f, "publish")) =>
            basefile[f].approved /\ basefile[f].published

\* both requests loaded f1 while it was neither approved nor published (the
\* instance of each still holds the other flag as false), both have saved,
\* and the row is approved and published
C29_Witness ==
    /\ Saved("w1", "f1", "approve") /\ Saved("w2", "f1", "publish")
    /\ ~loc["w1"].instance.published
    /\ ~loc["w2"].instance.approved
    /\ basefile["f1"].approved /\ basefile["f1"].published

\* ------------------------------------------------------------------------
\* the three counts of the album list view
\* ------------------------------------------------------------------------
\* the counts of the view that take the membership in, at the time it read
CountedIn(m, when) ==
    (IF Contains(m.period, when) THEN {"active_memberships"} ELSE {})
    \cup (IF endswith__lt(m.period, when) THEN {"historic_memberships"} ELSE {})
    \cup (IF startswith__gt(m.period, when) THEN {"future_memberships"} ELSE {})

\* C30: whenever the album list view is computed, each membership row of an
\* album is counted in exactly one of active_memberships,
\* historic_memberships and future_memberships, a membership whose period
\* ends at the very time of the request included: the three counts of an
\* album add up to the number of its membership rows.
C30_CountedOnce ==
    [][(last'.op = "AlbumListView" /\ last' # last) =>
        /\ \A m \in memberships : Cardinality(CountedIn(m, last'.when)) = 1
        /\ \A a \in DOMAIN album :
            last'.albums[a].active_memberships + last'.albums[a].historic_memberships
                + last'.albums[a].future_memberships
              = Cardinality({m \in memberships : m.album = a})]_vars

====
